---- MODULE Spec2Model ----
(***************************************************************************)
(* Model of the OCR-JSON -> text-line converter of                         *)
(* src/src/ocr_json2text_line.py (geometry model, format detection,        *)
(* filter chains, row clustering and layout reconstruction).               *)
(*                                                                         *)
(* Strings are sequences of one-character strings.  Python floats are      *)
(* modelled by exact rationals kept as scaled integers (the scale is       *)
(* stated next to each definition).                                        *)
(***************************************************************************)
EXTENDS Integers, Sequences, FiniteSets, TLC

VARIABLES
    boxInput,     \* BoundingBox component: the value handed to a constructor path
    boxResult,    \* ... the BoundingBox produced, or the exception raised
    boxConv,      \* ... what happens to the enclosing cloud-dialect conversion
    jsonIn,       \* format detection: the parsed top-level JSON value
    convCall,     \* ... the entry point that was called with it
    convResult,   \* ... what the call did: delegated, failure string, raised
    box_filters,  \* filter chains: self.box_filters
    row_filters,  \* ... self.row_filters
    hadFilters,   \* ... a non-empty chain has been installed at some time
    filtOut,      \* ... what the last conversion of the document did
    fragments,    \* row clustering: the fragment list handed to the grouping
    line_spacing, \* ... the line pitch, in half pixels
    groups,       \* ... the Rows returned
    char_height,  \* layout engine: self.char_height, in pixels
    line_height_multiplier, \* ... self.line_height_multiplier, in halves
    param_error,  \* ... what the last set_layout_params call raised
    page_width,   \* ... self.page_width
    page_height,  \* ... self.page_height
    regions,      \* ... the document being converted (canonical Regions)
    pc,           \* ... position of the conversion in progress
    grouped,      \* ... the Rows of the document, top to bottom
    row_index,    \* ... the Row the loop of the conversion is at
    prev_row,     \* ... index of the Row held by prev_row, 0 when None
    text_lines,   \* ... the text lines appended so far
    origins,      \* ... for each text line, the Row it renders (0: blank line)
    outcome,      \* ... what the conversion returned
    ocr_items,    \* flat-box adapter: the item list handed to the adapter
    joinIn,       \* row joining: the arguments of _join_fragments_with_spacing
    joinOut,      \* ... the string it returned
    page_doc,     \* converter reuse: the document handed to the last conversion
    page_calls,   \* ... the page_info of each box predicate call it made
    page_out,     \* ... what it returned and which lines it rejected
    image,        \* margin detector: the binarized page image
    detector,     \* ... the parameters of the PageBodyDetector
    page_margin,  \* ... the PageMargin returned
    sinks,        \* rejection log: the content of each log file
    writers       \* ... the conversions writing to them

boxVars == <<boxInput, boxResult, boxConv>>
detectVars == <<jsonIn, convCall, convResult>>
filterVars == <<box_filters, row_filters, hadFilters, filtOut>>
clusterVars == <<fragments, line_spacing, groups>>
layoutVars ==
    <<char_height, line_height_multiplier, param_error, page_width, page_height,
      regions, pc, grouped, row_index, prev_row, text_lines, origins, outcome>>
flatVars == <<ocr_items>>
joinVars == <<joinIn, joinOut>>
pageVars == <<page_doc, page_calls, page_out>>
marginVars == <<image, detector, page_margin>>
sinkVars == <<sinks, writers>>
vars == <<boxVars, detectVars, filterVars, clusterVars, layoutVars, flatVars,
          joinVars, pageVars, marginVars, sinkVars>>

None == [kind |-> "none"]

(***************************************************************************)
(* Small helpers                                                           *)
(***************************************************************************)
Min(a, b) == IF a <= b THEN a ELSE b
Max(a, b) == IF a >= b THEN a ELSE b
Abs(a) == IF a < 0 THEN -a ELSE a

SetMin(S) == CHOOSE m \in S : \A e \in S : m <= e
SetMax(S) == CHOOSE m \in S : \A e \in S : m >= e

Range(s) == {s[i] : i \in 1..Len(s)}

\* Concatenation of a sequence of sequences.
RECURSIVE Flatten(_)
Flatten(ss) == IF ss = <<>> THEN <<>> ELSE Head(ss) \o Flatten(Tail(ss))

\* Python int(): truncation toward zero of the rational n/d, d > 0.
Trunc(n, d) == IF n >= 0 THEN n \div d ELSE -((-n) \div d)

(***************************************************************************)
(* Strings: str.split(','), str.strip(), int(str)                          *)
(***************************************************************************)
DigitChars == <<"0", "1", "2", "3", "4", "5", "6", "7", "8", "9">>
IsDigit(c) == \E i \in 1..10 : DigitChars[i] = c
DigitVal(c) == (CHOOSE i \in 1..10 : DigitChars[i] = c) - 1
IsSpace(c) == c = " "

\* str.split(','): the pieces between the commas, empty pieces included.
RECURSIVE Split(_)
Split(s) ==
    IF \A i \in 1..Len(s) : s[i] # ","
    THEN <<s>>
    ELSE LET k == CHOOSE i \in 1..Len(s) :
                     s[i] = "," /\ \A j \in 1..(i - 1) : s[j] # ","
         IN  <<SubSeq(s, 1, k - 1)>> \o Split(SubSeq(s, k + 1, Len(s)))

\* str.lstrip() / str.strip(): drop leading (and trailing) white space.
RECURSIVE LStrip(_)
LStrip(s) == IF s # <<>> /\ IsSpace(Head(s)) THEN LStrip(Tail(s)) ELSE s

RECURSIVE RStrip(_)
RStrip(s) ==
    IF s # <<>> /\ IsSpace(s[Len(s)]) THEN RStrip(SubSeq(s, 1, Len(s) - 1)) ELSE s

Strip(s) == RStrip(LStrip(s))

\* The digits part of an int() literal: digits, single underscores allowed
\* between two digits.
IsDigitsLiteral(s) ==
    /\ s # <<>>
    /\ IsDigit(s[1]) /\ IsDigit(s[Len(s)])
    /\ \A i \in 1..Len(s) : IsDigit(s[i]) \/ s[i] = "_"
    /\ \A i \in 1..(Len(s) - 1) : ~(s[i] = "_" /\ s[i + 1] = "_")

RECURSIVE DigitsValue(_)
DigitsValue(s) ==
    IF s = <<>> THEN 0
    ELSE IF s[Len(s)] = "_" THEN DigitsValue(SubSeq(s, 1, Len(s) - 1))
    ELSE 10 * DigitsValue(SubSeq(s, 1, Len(s) - 1)) + DigitVal(s[Len(s)])

HasSign(s) == s # <<>> /\ s[1] \in {"+", "-"}

\* int(s) succeeds (no ValueError) / its value.  s is already stripped.
IsIntLiteral(s) == IsDigitsLiteral(IF HasSign(s) THEN Tail(s) ELSE s)
IntValue(s) ==
    IF HasSign(s)
    THEN (IF s[1] = "-" THEN -1 ELSE 1) * DigitsValue(Tail(s))
    ELSE DigitsValue(s)

\* str(n) for an integer n.
RECURSIVE NatStr(_)
NatStr(n) ==
    IF n < 10 THEN <<DigitChars[n + 1]>>
    ELSE NatStr(n \div 10) \o <<DigitChars[(n % 10) + 1]>>

IntStr(n) == IF n < 0 THEN <<"-">> \o NatStr(-n) ELSE NatStr(n)

\* ",".join(tokens)
RECURSIVE JoinComma(_)
JoinComma(toks) ==
    IF toks = <<>> THEN <<>>
    ELSE IF Len(toks) = 1 THEN toks[1]
    ELSE toks[1] \o <<",">> \o JoinComma(Tail(toks))

(***************************************************************************)
(* BoundingBox                                                             *)
(***************************************************************************)
BoundingBox(x, y, w, h) == [x |-> x, y |-> y, width |-> w, height |-> h]

Returned(b) == [kind |-> "returned", box |-> b]
Raised(e) == [kind |-> "raised", exc |-> e]

\* A JSON field value: a string, null, a number, or (dict.get default) absent.
\* form and of record how an input string was written (read by the
\* properties only): "four" / "eight" spell the integers of, "malformed" has
\* a wrong token count or a token that is no integer, "lenient" is a spelling
\* that int() and the empty-piece filter happen to accept.
StrVal(s) == [type |-> "str", chars |-> s, form |-> "plain", of |-> <<>>]
StrInput(s, form, of) == [type |-> "str", chars |-> s, form |-> form, of |-> of]
NullVal == [type |-> "null"]
NumVal == [type |-> "num"]
Missing == [type |-> "missing"]

\* The list comprehension of line 38: stripped pieces, empty ones dropped.
RECURSIVE NonEmptyStripped(_)
NonEmptyStripped(pieces) ==
    IF pieces = <<>> THEN <<>>
    ELSE LET p == Strip(Head(pieces))
         IN  (IF p # <<>> THEN <<p>> ELSE <<>>) \o NonEmptyStripped(Tail(pieces))

\* BoundingBox.from_string, mutated: the 8-value form takes the first point
\* as the corner instead of the minimum.
from_string_firstpoint(v) ==
    IF v.type # "str" THEN Raised("AttributeError")
    ELSE
    LET parts == NonEmptyStripped(Split(v.chars))
        allInt == \A i \in 1..Len(parts) : IsIntLiteral(parts[i])
        n(i) == IntValue(parts[i])
    IN  IF Len(parts) = 4 /\ allInt
        THEN Returned(BoundingBox(n(1), n(2), n(3), n(4)))
        ELSE IF Len(parts) = 8 /\ allInt
        THEN LET xs == {n(1), n(3), n(5), n(7)}
                 ys == {n(2), n(4), n(6), n(8)}
             IN  Returned(BoundingBox(n(1), n(2),
                                      SetMax(xs) - n(1), SetMax(ys) - n(2)))
        ELSE Returned(BoundingBox(0, 0, 0, 0))

\* BoundingBox.from_string, mutated: a malformed token raises instead of
\* degrading to the zero box.
from_string_strict(v) ==
    IF v.type # "str" THEN Raised("AttributeError")
    ELSE
    LET parts == NonEmptyStripped(Split(v.chars))
        allInt == \A i \in 1..Len(parts) : IsIntLiteral(parts[i])
        n(i) == IntValue(parts[i])
    IN  IF Len(parts) \in {4, 8} /\ ~allInt THEN Raised("ValueError")
        ELSE IF Len(parts) = 4
        THEN Returned(BoundingBox(n(1), n(2), n(3), n(4)))
        ELSE IF Len(parts) = 8
        THEN LET xs == {n(1), n(3), n(5), n(7)}
                 ys == {n(2), n(4), n(6), n(8)}
             IN  Returned(BoundingBox(SetMin(xs), SetMin(ys),
                                      SetMax(xs) - SetMin(xs),
                                      SetMax(ys) - SetMin(ys)))
        ELSE Returned(BoundingBox(0, 0, 0, 0))

\* BoundingBox.from_string(bbox_str).  bbox_str.split is evaluated inside the
\* try, but the handler catches only ValueError and IndexError: a value that
\* is not a string has no split() and the AttributeError escapes.
from_string(v) ==
    IF v.type # "str" THEN Raised("AttributeError")
    ELSE
    LET parts == NonEmptyStripped(Split(v.chars))
        allInt == \A i \in 1..Len(parts) : IsIntLiteral(parts[i])
        n(i) == IntValue(parts[i])
    IN  IF Len(parts) = 4 /\ allInt
        THEN Returned(BoundingBox(n(1), n(2), n(3), n(4)))
        ELSE IF Len(parts) = 8 /\ allInt
        THEN LET xs == {n(1), n(3), n(5), n(7)}
                 ys == {n(2), n(4), n(6), n(8)}
             IN  Returned(BoundingBox(SetMin(xs), SetMin(ys),
                                      SetMax(xs) - SetMin(xs),
                                      SetMax(ys) - SetMin(ys)))
        ELSE Returned(BoundingBox(0, 0, 0, 0))

\* data.get('boundingBox', '0,0,0,0') followed by from_string, as in
\* Word.from_dict, Line.from_dict and Region.from_dict.
ZeroBoxStr == <<"0", ",", "0", ",", "0", ",", "0">>
from_dict_box(field) ==
    from_string(IF field.type = "missing" THEN StrVal(ZeroBoxStr) ELSE field)

\* convert_youdao_json_to_text builds the regions inside
\* try ... except (KeyError, TypeError, ValueError): any other exception
\* leaves the conversion.
YoudaoCaught == {"KeyError", "TypeError", "ValueError"}
youdao_outcome(r) ==
    IF r.kind = "raised"
    THEN (IF r.exc \in YoudaoCaught THEN "failure_string" ELSE "raised")
    ELSE "continues"

(***************************************************************************)
(* Box construction in the flat-box and PDF-block adapters                 *)
(***************************************************************************)
\* _convert_rapidocr_to_regions, lines 795-807.  A polygon is four points
\* <<px, py>>; coordinates are kept in half pixels (the engine reports
\* floats), so int(v) is Trunc(v, 2).
rapidocr_bbox(poly) ==
    LET xs == {poly[i][1] : i \in 1..4}
        ys == {poly[i][2] : i \in 1..4}
    IN  BoundingBox(Trunc(SetMin(xs), 2), Trunc(SetMin(ys), 2),
                    Trunc(SetMax(xs) - SetMin(xs), 2),
                    Trunc(SetMax(ys) - SetMin(ys), 2))

\* _convert_pymupdf_to_regions, lines 976-982: a span bbox <<x0, y0, x1, y1>>
\* at 72 dpi scaled by dpi / 72.0 and truncated.
PdfDpi == 72
pymupdf_word_bbox(sb, dpi) ==
    BoundingBox(Trunc(sb[1] * dpi, PdfDpi), Trunc(sb[2] * dpi, PdfDpi),
                Trunc((sb[3] - sb[1]) * dpi, PdfDpi),
                Trunc((sb[4] - sb[2]) * dpi, PdfDpi))

\* lines 991-1000: the union of the line box so far and the next word box.
merge_bbox(a, b) ==
    LET min_x == Min(a.x, b.x)
        min_y == Min(a.y, b.y)
        max_x == Max(a.x + a.width, b.x + b.width)
        max_y == Max(a.y + a.height, b.y + b.height)
    IN  BoundingBox(min_x, min_y, max_x - min_x, max_y - min_y)

\* lines 960-1000: the line box of a sequence of spans (all with text).
RECURSIVE pymupdf_line_bbox(_, _)
pymupdf_line_bbox(spans, dpi) ==
    IF Len(spans) = 1 THEN pymupdf_word_bbox(spans[1], dpi)
    ELSE merge_bbox(pymupdf_line_bbox(SubSeq(spans, 1, Len(spans) - 1), dpi),
                    pymupdf_word_bbox(spans[Len(spans)], dpi))

(***************************************************************************)
(* Specification SpecBox: one box is built by one of the construction      *)
(* paths from an input drawn in Init.                                      *)
(***************************************************************************)
MaxCoord == 1
MaxTokens == 9

Coords4 == {c * k : c \in (-MaxCoord)..MaxCoord, k \in {1, 7}}
Coords8 == {-MaxCoord, 0, 10 + MaxCoord}

FourForm(x, y, w, h) == JoinComma(<<IntStr(x), IntStr(y), IntStr(w), IntStr(h)>>)
EightForm(p) == JoinComma([i \in 1..8 |-> IntStr(p[i])])

\* Tokens that int() rejects, and lenient spellings that it accepts.
BadTokens == {<<"x">>, <<"1", ".", "5">>, <<"-">>, <<"1", "_">>, <<"7", " ", "7">>}
OddTokens == {<<" ", "7", " ">>, <<"+", "7">>, <<"1", "_", "0">>, <<>>, <<" ">>}

Sevens(n) == [i \in 1..n |-> <<"7">>]
OneReplaced(n, repl) ==
    {[i \in 1..n |-> IF i = k THEN t ELSE <<"7">>] : k \in 1..n, t \in repl}

WellFormed4 ==
    {StrInput(FourForm(x, y, w, h), "four", <<x, y, w, h>>) : x, y, w, h \in Coords4}
WellFormed8 ==
    {StrInput(EightForm(p), "eight", p) : p \in [1..8 -> Coords8]}
WrongCount ==
    {StrInput(JoinComma(Sevens(n)), "malformed", <<>>) : n \in (0..MaxTokens) \ {4, 8}}
NonInteger ==
    {StrInput(JoinComma(ts), "malformed", <<>>) :
        ts \in UNION {OneReplaced(n, BadTokens) : n \in 1..MaxTokens}}
Lenient ==
    {StrInput(JoinComma(ts), "lenient", <<>>) :
        ts \in UNION {OneReplaced(n, OddTokens) : n \in 1..MaxTokens}}
FieldValues == WellFormed4 \cup WellFormed8 \cup WrongCount \cup NonInteger
                   \cup Lenient \cup {NullVal, NumVal, Missing}

HalfPx == {0, 1, 5}
Polygons == {[type |-> "poly", poly |-> [i \in 1..4 |-> <<p[i], p[i + 4]>>]] :
                p \in [1..8 -> HalfPx]}

MaxSpans == 2
SpanCoords == {0, 3}
Dpis == {72, 108}
SpanBoxes == [1..4 -> SpanCoords]
SpanLists == UNION {[1..n -> SpanBoxes] : n \in 1..MaxSpans}
SpanInputs == {[type |-> "spans", spans |-> ss, dpi |-> d] : ss \in SpanLists, d \in Dpis}

BoxIdle == boxInput = None /\ boxResult = None /\ boxConv = "idle"
DetectIdle == jsonIn = None /\ convCall = "none" /\ convResult = None
FilterIdle ==
    box_filters = <<>> /\ row_filters = <<>> /\ hadFilters = FALSE /\ filtOut = None
ClusterIdle == fragments = <<>> /\ line_spacing = 0 /\ groups = None
LayoutIdle ==
    /\ char_height = 0 /\ line_height_multiplier = 0 /\ param_error = None
    /\ page_width = 0 /\ page_height = 0 /\ regions = <<>> /\ pc = "idle"
    /\ grouped = <<>> /\ row_index = 0 /\ prev_row = 0
    /\ text_lines = <<>> /\ origins = <<>> /\ outcome = None
FlatIdle == ocr_items = <<>>
JoinIdle == joinIn = None /\ joinOut = None
PageIdle == page_doc = None /\ page_calls = <<>> /\ page_out = None
MarginIdle == image = None /\ detector = None /\ page_margin = None
SinkIdle == sinks = <<>> /\ writers = <<>>

InitBox ==
    /\ boxInput \in FieldValues \cup Polygons \cup SpanInputs
    /\ boxResult = None
    /\ boxConv = "idle"
    /\ DetectIdle
    /\ FilterIdle
    /\ ClusterIdle
    /\ LayoutIdle
    /\ FlatIdle
    /\ JoinIdle
    /\ PageIdle
    /\ MarginIdle
    /\ SinkIdle

\* Region/Line/Word.from_dict parse the boundingBox field of a cloud-dialect
\* element while convert_youdao_json_to_text builds the regions.
ParseField ==
    /\ boxResult = None
    /\ boxInput.type \in {"str", "null", "num", "missing"}
    /\ boxResult' = from_dict_box(boxInput)
    /\ boxConv' = youdao_outcome(from_dict_box(boxInput))
    /\ UNCHANGED <<boxInput, detectVars, filterVars, clusterVars, layoutVars, flatVars, joinVars,
                   pageVars, marginVars, sinkVars>>

\* The flat-box adapter builds the box of one item.
RapidocrBox ==
    /\ boxResult = None
    /\ boxInput.type = "poly"
    /\ boxResult' = Returned(rapidocr_bbox(boxInput.poly))
    /\ boxConv' = "continues"
    /\ UNCHANGED <<boxInput, detectVars, filterVars, clusterVars, layoutVars, flatVars, joinVars,
                   pageVars, marginVars, sinkVars>>

\* The PDF-block adapter builds the box of one line from its spans.
PymupdfLine ==
    /\ boxResult = None
    /\ boxInput.type = "spans"
    /\ boxResult' = Returned(pymupdf_line_bbox(boxInput.spans, boxInput.dpi))
    /\ boxConv' = "continues"
    /\ UNCHANGED <<boxInput, detectVars, filterVars, clusterVars, layoutVars, flatVars, joinVars,
                   pageVars, marginVars, sinkVars>>

NextBox == ParseField \/ RapidocrBox \/ PymupdfLine

SpecBox == InitBox /\ [][NextBox]_vars

(***************************************************************************)
(* Format auto-detection: OCRJsonToTextLine.convert_json_to_text           *)
(***************************************************************************)
\* A parsed JSON value, as far as detection looks at it: a dict with its key
\* set, a list with its elements (a dict element with its key set), or a
\* scalar.
JDict(keys) == [t |-> "dict", keys |-> keys]
JList(items) == [t |-> "list", items |-> items]
JScalar(t) == [t |-> t]

Delegated(adapter) == [kind |-> "delegated", adapter |-> adapter]
FailureString == [kind |-> "failure_string"]

\* convert_json_to_text, mutated: the PDF-block test looks at 'blocks' only.
convert_json_to_text_blocksonly(v) ==
    IF v.t = "list"
    THEN IF Len(v.items) > 0 /\ v.items[1].t = "dict" /\ "blocks" \in v.items[1].keys
         THEN Delegated("pymupdf")
         ELSE Delegated("rapidocr")
    ELSE IF v.t = "dict"
    THEN IF "Result" \in v.keys THEN Delegated("youdao") ELSE Raised("ValueError")
    ELSE Raised("ValueError")

\* convert_json_to_text, mutated: the unsupported shape is reported with the
\* adapters' failure string instead of being raised.
convert_json_to_text_caught(v) ==
    IF v.t = "list"
    THEN IF /\ Len(v.items) > 0
            /\ v.items[1].t = "dict"
            /\ {"width", "height", "blocks"} \subseteq v.items[1].keys
         THEN Delegated("pymupdf")
         ELSE Delegated("rapidocr")
    ELSE IF v.t = "dict"
    THEN IF "Result" \in v.keys THEN Delegated("youdao") ELSE FailureString
    ELSE FailureString

\* convert_json_to_text(ocr_json): the adapter the value is handed to (whose
\* return value is returned), or the ValueError raised to the caller.
convert_json_to_text(v) ==
    IF v.t = "list"
    THEN IF /\ Len(v.items) > 0
            /\ v.items[1].t = "dict"
            /\ "width" \in v.items[1].keys
            /\ "height" \in v.items[1].keys
            /\ "blocks" \in v.items[1].keys
         THEN Delegated("pymupdf")
         ELSE Delegated("rapidocr")
    ELSE IF v.t = "dict"
    THEN IF "Result" \in v.keys THEN Delegated("youdao") ELSE Raised("ValueError")
    ELSE Raised("ValueError")

\* The shape guard at the head of each adapter, inside the adapter's
\* try ... except (KeyError, TypeError, ValueError): the error becomes the
\* returned failure string.  ('Result' in ocr_json is False for a list, a
\* TypeError for a number, null or bool, and for a string the following
\* subscript is a TypeError.)
convert_youdao_json_to_text(v) ==
    IF v.t = "dict" /\ "Result" \in v.keys THEN Delegated("youdao_body")
    ELSE FailureString

convert_rapidocr_json_to_text(v) ==
    IF v.t = "list" THEN Delegated("rapidocr_body") ELSE FailureString

convert_pymupdf_json_to_text(v) ==
    IF v.t = "list" THEN Delegated("pymupdf_body") ELSE FailureString

TopKeys == {"Result", "regions", "width", "blocks"}
ElemKeys == {"width", "height", "blocks", "txt", "box"}
ScalarTypes == {"str", "num", "null", "bool"}
MaxItems == 2
Elements == {JDict(k) : k \in SUBSET ElemKeys} \cup {JScalar(t) : t \in ScalarTypes}
                \cup {JList(<<>>)}
\* Detection reads the first element only: the others are plain flat-box items.
PlainItem == JDict({"txt", "box"})
JsonValues ==
    {JDict(k) : k \in SUBSET TopKeys} \cup {JScalar(t) : t \in ScalarTypes}
        \cup {JList(<<>>)}
        \cup {JList([i \in 1..n |-> IF i = 1 THEN e ELSE PlainItem]) :
                 n \in 1..MaxItems, e \in Elements}

InitDetect ==
    /\ jsonIn \in JsonValues
    /\ convCall = "none"
    /\ convResult = None
    /\ BoxIdle
    /\ FilterIdle
    /\ ClusterIdle
    /\ LayoutIdle
    /\ FlatIdle
    /\ JoinIdle
    /\ PageIdle
    /\ MarginIdle
    /\ SinkIdle

ConvertJsonToText ==
    /\ convCall = "none"
    /\ convCall' = "convert_json_to_text"
    /\ convResult' = convert_json_to_text(jsonIn)
    /\ UNCHANGED <<jsonIn, boxVars, filterVars, clusterVars, layoutVars, flatVars, joinVars,
                   pageVars, marginVars, sinkVars>>

ConvertYoudaoDirect ==
    /\ convCall = "none"
    /\ convCall' = "convert_youdao_json_to_text"
    /\ convResult' = convert_youdao_json_to_text(jsonIn)
    /\ UNCHANGED <<jsonIn, boxVars, filterVars, clusterVars, layoutVars, flatVars, joinVars,
                   pageVars, marginVars, sinkVars>>

ConvertRapidocrDirect ==
    /\ convCall = "none"
    /\ convCall' = "convert_rapidocr_json_to_text"
    /\ convResult' = convert_rapidocr_json_to_text(jsonIn)
    /\ UNCHANGED <<jsonIn, boxVars, filterVars, clusterVars, layoutVars, flatVars, joinVars,
                   pageVars, marginVars, sinkVars>>

ConvertPymupdfDirect ==
    /\ convCall = "none"
    /\ convCall' = "convert_pymupdf_json_to_text"
    /\ convResult' = convert_pymupdf_json_to_text(jsonIn)
    /\ UNCHANGED <<jsonIn, boxVars, filterVars, clusterVars, layoutVars, flatVars, joinVars,
                   pageVars, marginVars, sinkVars>>

NextDetect ==
    \/ ConvertJsonToText
    \/ ConvertYoudaoDirect
    \/ ConvertRapidocrDirect
    \/ ConvertPymupdfDirect

SpecDetect == InitDetect /\ [][NextDetect]_vars

(***************************************************************************)
(* Filter chains                                                           *)
(***************************************************************************)
\* A predicate is what it does on each item of the document: it returns true
\* ("T"), returns false ("F"), or an exception is raised inside the try block
\* that looks up its name and calls it ("X").
Verdicts == {"T", "F", "X"}

Verdict(chain, k, item) == chain[k][item]

FilterRun(keep, calls, log) == [keep |-> keep, calls |-> calls, log |-> log]

\* The for loop of _apply_box_filters / _apply_row_box_filters, mutated: an
\* exception in a predicate drops the item.
RECURSIVE run_filter_loop_failclosed(_, _, _, _)
run_filter_loop_failclosed(chain, item, k, type) ==
    IF k > Len(chain) THEN FilterRun(TRUE, <<>>, <<>>)
    ELSE IF Verdict(chain, k, item) = "F"
    THEN FilterRun(FALSE, <<k>>, <<[type |-> type, filter |-> k, item |-> item]>>)
    ELSE IF Verdict(chain, k, item) = "X"
    THEN FilterRun(FALSE, <<k>>, <<>>)
    ELSE LET rest == run_filter_loop_failclosed(chain, item, k + 1, type)
         IN  FilterRun(rest.keep, <<k>> \o rest.calls, rest.log)

\* The for loop, mutated: the item is kept as soon as one predicate returns
\* true (a disjunctive chain).
RECURSIVE run_filter_loop_any(_, _, _, _)
run_filter_loop_any(chain, item, k, type) ==
    IF k > Len(chain) THEN FilterRun(FALSE, <<>>, <<>>)
    ELSE IF Verdict(chain, k, item) = "T"
    THEN FilterRun(TRUE, <<k>>, <<>>)
    ELSE LET rest == run_filter_loop_any(chain, item, k + 1, type)
         IN  FilterRun(rest.keep, <<k>> \o rest.calls, rest.log)

\* The for loop of _apply_box_filters (lines 280-292) and of
\* _apply_row_box_filters (lines 337-349) from predicate k on: the first
\* predicate that returns false logs the item and ends the loop with False; an
\* exception is printed and the loop continues; the end of the chain is True.
\* calls lists the predicates reached, log the entries appended to the log.
RECURSIVE run_filter_loop(_, _, _, _)
run_filter_loop(chain, item, k, type) ==
    IF k > Len(chain) THEN FilterRun(TRUE, <<>>, <<>>)
    ELSE IF Verdict(chain, k, item) = "F"
    THEN FilterRun(FALSE, <<k>>, <<[type |-> type, filter |-> k, item |-> item]>>)
    ELSE LET rest == run_filter_loop(chain, item, k + 1, type)
         IN  FilterRun(rest.keep, <<k>> \o rest.calls, rest.log)

\* _apply_box_filters(box_data, page_info)
_apply_box_filters(chain, item) ==
    IF chain = <<>> THEN FilterRun(TRUE, <<>>, <<>>)
    ELSE run_filter_loop(chain, item, 1, "box")

\* _apply_row_box_filters with the test for an empty row (line 308) before
\* the test for an empty chain (line 304).
_apply_row_box_filters_emptyfirst(chain, row) ==
    IF row = <<>> THEN FilterRun(FALSE, <<>>, <<>>)
    ELSE IF chain = <<>> THEN FilterRun(TRUE, <<>>, <<>>)
    ELSE run_filter_loop(chain, row[1], 1, "row")

\* _apply_row_box_filters(row, page_info); row is a sequence of items, the
\* predicates see the row through its first fragment.
_apply_row_box_filters(chain, row) ==
    IF chain = <<>> THEN FilterRun(TRUE, <<>>, <<>>)
    ELSE IF row = <<>> THEN FilterRun(FALSE, <<>>, <<>>)
    ELSE run_filter_loop(chain, row[1], 1, "row")

\* The document of this component: two horizontal cloud-dialect lines with
\* text, far enough apart that every fragment is a row of its own, in top to
\* bottom order.
Items == {1, 2}
NItems == Cardinality(Items)
Predicates == [Items -> Verdicts]
MaxPreds == 2
Chains(n) == UNION {[1..m -> Predicates] : m \in 0..n}

\* _collect_horizontal_fragments: the lines that pass the box-level chain, in
\* document order, with the predicate calls and log entries of each line.
RECURSIVE collect_fragments(_, _)
collect_fragments(chain, i) ==
    IF i > NItems THEN [fragments |-> <<>>, log |-> <<>>]
    ELSE LET r == _apply_box_filters(chain, i)
             rest == collect_fragments(chain, i + 1)
         IN  [fragments |-> (IF r.keep THEN <<i>> ELSE <<>>) \o rest.fragments,
              log |-> r.log \o rest.log]

\* The row loop of convert_regions_to_text_lines (lines 440-465) as far as
\* filtering goes: rows dropped by the row-level chain emit nothing.
RECURSIVE filter_rows(_, _)
filter_rows(chain, rows) ==
    IF rows = <<>> THEN [lines |-> <<>>, log |-> <<>>]
    ELSE LET r == _apply_row_box_filters(chain, Head(rows))
             rest == filter_rows(chain, Tail(rows))
         IN  [lines |-> (IF r.keep THEN <<Head(rows)[1]>> ELSE <<>>) \o rest.lines,
              log |-> r.log \o rest.log]

\* The lines of the document as the chains see them: box_data of lines
\* 556-565 for line i, row_data of lines 321-334 for the row made of line i.
\* The text of the first line is one character longer than the log keeps.
LogTextLimit == 50
ItemText(i) == IF i = 1 THEN [k \in 1..(LogTextLimit + 1) |-> "x"] ELSE <<"y">>
box_data(i) ==
    [text |-> ItemText(i), x |-> 5 * i, y |-> 100 * i, width |-> 40, height |-> 10 + i]
row_data(row) ==
    LET boxes == {box_data(i) : i \in Range(row)}
        min_x == SetMin({b.x : b \in boxes})
        min_y == SetMin({b.y : b \in boxes})
    IN  [row_text |-> Flatten([j \in DOMAIN row |-> box_data(row[j]).text]),
         row_bounds |-> [x |-> min_x, y |-> min_y,
                         width |-> SetMax({b.x + b.width : b \in boxes}) - min_x,
                         height |-> SetMax({b.y + b.height : b \in boxes}) - min_y]]

\* text[:50]
Truncated(text) == SubSeq(text, 1, Min(Len(text), LogTextLimit))

\* The log line of _log_filtered_item with the whole text.
_log_filtered_item_fulltext(item_type, filter_name, item_data) ==
    IF item_type = "box"
    THEN [type |-> "box", filter |-> filter_name, text |-> item_data.text,
          x |-> item_data.x, y |-> item_data.y,
          width |-> item_data.width, height |-> item_data.height]
    ELSE [type |-> "row", filter |-> filter_name, text |-> item_data.row_text,
          x |-> item_data.row_bounds.x, y |-> item_data.row_bounds.y,
          width |-> item_data.row_bounds.width,
          height |-> item_data.row_bounds.height]

\* _log_filtered_item (lines 218-264): the line appended to the log file,
\* as the fields its text is made of (line 243).
_log_filtered_item(item_type, filter_name, item_data) ==
    IF item_type = "box"
    THEN [type |-> "box", filter |-> filter_name, text |-> Truncated(item_data.text),
          x |-> item_data.x, y |-> item_data.y,
          width |-> item_data.width, height |-> item_data.height]
    ELSE [type |-> "row", filter |-> filter_name,
          text |-> Truncated(item_data.row_text),
          x |-> item_data.row_bounds.x, y |-> item_data.row_bounds.y,
          width |-> item_data.row_bounds.width,
          height |-> item_data.row_bounds.height]

\* The lines appended to the log for the rejections recorded by the loops.
log_lines(entries) ==
    [e \in DOMAIN entries |->
        _log_filtered_item(entries[e].type, entries[e].filter,
                           IF entries[e].type = "box" THEN box_data(entries[e].item)
                           ELSE row_data(<<entries[e].item>>))]

\* One conversion of the document: nothing in it raises, so the adapter
\* returns the joined lines.
convert_document(bf, rf) ==
    LET c == collect_fragments(bf, 1)
        rows == [j \in 1..Len(c.fragments) |-> <<c.fragments[j]>>]
        f == filter_rows(rf, rows)
    IN  [kind |-> "lines",
         fragments |-> c.fragments,
         lines |-> f.lines,
         boxCalls |-> [i \in Items |-> _apply_box_filters(bf, i).calls],
         rowCalls |-> [i \in Items |->
                          IF i \in Range(c.fragments)
                          THEN _apply_row_box_filters(rf, <<i>>).calls ELSE <<>>],
         log |-> log_lines(c.log \o f.log)]

InitFilter ==
    /\ box_filters = <<>>
    /\ row_filters = <<>>
    /\ hadFilters = FALSE
    /\ filtOut = None
    /\ BoxIdle
    /\ DetectIdle
    /\ ClusterIdle
    /\ LayoutIdle
    /\ FlatIdle
    /\ JoinIdle
    /\ PageIdle
    /\ MarginIdle
    /\ SinkIdle

\* boxFilter(*filter_functions): replaces the chain (with no argument: empties it).
boxFilter ==
    \E fs \in Chains(MaxPreds) :
        /\ Len(fs) + Len(row_filters) <= MaxPreds
        /\ box_filters' = fs
        /\ hadFilters' = (hadFilters \/ fs # <<>>)
        /\ filtOut' = None
        /\ UNCHANGED <<row_filters, boxVars, detectVars, clusterVars, layoutVars, flatVars, joinVars,
                   pageVars, marginVars, sinkVars>>

\* rowBoxFilter(*filter_functions)
rowBoxFilter ==
    \E fs \in Chains(MaxPreds) :
        /\ Len(fs) + Len(box_filters) <= MaxPreds
        /\ row_filters' = fs
        /\ hadFilters' = (hadFilters \/ fs # <<>>)
        /\ filtOut' = None
        /\ UNCHANGED <<box_filters, boxVars, detectVars, clusterVars, layoutVars, flatVars, joinVars,
                   pageVars, marginVars, sinkVars>>

\* convert_json_to_text on the document with the chains installed.
ConvertFiltered ==
    /\ filtOut' = convert_document(box_filters, row_filters)
    /\ UNCHANGED <<box_filters, row_filters, hadFilters, boxVars, detectVars, clusterVars, layoutVars, flatVars, joinVars,
                   pageVars, marginVars, sinkVars>>

NextFilter == boxFilter \/ rowBoxFilter \/ ConvertFiltered

SpecFilter == InitFilter /\ [][NextFilter]_vars

\* _apply_row_box_filters called on its own, with the chain installed, on a
\* row of the items of the document or on a row without fragments.
RowsOfItems == {<<>>, <<1>>, <<2>>, <<1, 2>>, <<2, 1>>}
ApplyRowFilters ==
    \E row \in RowsOfItems :
        /\ filtOut' = [kind |-> "row", row |-> row,
                       run |-> _apply_row_box_filters(row_filters, row)]
        /\ UNCHANGED <<box_filters, row_filters, hadFilters, boxVars, detectVars,
                       clusterVars, layoutVars, flatVars, joinVars, pageVars,
                       marginVars, sinkVars>>

NextRowFilter == rowBoxFilter \/ ApplyRowFilters

SpecRowFilter == InitFilter /\ [][NextRowFilter]_vars

(***************************************************************************)
(* Row clustering: OCRJsonToTextLine._group_fragments_by_line              *)
(***************************************************************************)
\* A fragment is the dict of lines 575-581; id is the identity of the dict
\* object (its position in the list handed in).  Lengths are pixels; the line
\* pitch and the vertical centers are kept in half pixels.
Fragment(id, text, x, y, w, h) ==
    [id |-> id, text |-> text, x |-> x, y |-> y, width |-> w, height |-> h]

\* line 591: y_mid = y + height / 2.0, in half pixels.
y_mid(frag) == 2 * frag.y + frag.height

\* line 427: line_spacing = max(1.0, char_height * line_height_multiplier), in
\* half pixels; the multiplier is given in halves (3 is 1.5).
LineSpacing(ch, lhm2) == Max(2, ch * lhm2)

\* self.same_line_threshold_ratio = 0.8 (line 115), in tenths.
same_line_threshold_ratio == 8

\* line 594: threshold = max(1.0, ratio * line_spacing), in twentieths of a
\* pixel (tenths of the ratio times half pixels of the line pitch).
Threshold(ls, ratio) == Max(20, ratio * ls)

\* list.sort(key=...) / sorted(..., key=...): a stable sort.
RECURSIVE InsertByYMid(_, _)
InsertByYMid(f, s) ==
    IF s = <<>> THEN <<f>>
    ELSE IF y_mid(Head(s)) <= y_mid(f) THEN <<Head(s)>> \o InsertByYMid(f, Tail(s))
    ELSE <<f>> \o s

RECURSIVE SortByYMid(_)
SortByYMid(s) ==
    IF s = <<>> THEN <<>>
    ELSE InsertByYMid(s[Len(s)], SortByYMid(SubSeq(s, 1, Len(s) - 1)))

\* The sort of line 607 with ties broken the other way: a fragment is placed
\* before the fragments of equal x that precede it in the list.
RECURSIVE InsertByX_unstable(_, _)
InsertByX_unstable(f, s) ==
    IF s = <<>> THEN <<f>>
    ELSE IF Head(s).x < f.x THEN <<Head(s)>> \o InsertByX_unstable(f, Tail(s))
    ELSE <<f>> \o s

RECURSIVE InsertByX(_, _)
InsertByX(f, s) ==
    IF s = <<>> THEN <<f>>
    ELSE IF Head(s).x <= f.x THEN <<Head(s)>> \o InsertByX(f, Tail(s))
    ELSE <<f>> \o s

RECURSIVE SortByX(_)
SortByX(s) ==
    IF s = <<>> THEN <<>>
    ELSE InsertByX(s[Len(s)], SortByX(SubSeq(s, 1, Len(s) - 1)))

\* Sum of the centers of a group, in half pixels.
RECURSIVE SumYMid(_)
SumYMid(s) == IF s = <<>> THEN 0 ELSE y_mid(Head(s)) + SumYMid(Tail(s))

\* The test of line 601, mutated: the group center is never updated, it stays
\* the center of the first fragment of the group.
WithinThreshold_first(item, group, thr) ==
    10 * Abs(y_mid(item) - y_mid(group[1])) <= thr

\* line 601: abs(item['y_mid'] - current_mid) <= threshold, where current_mid
\* is the running mean of the group, sum / n (line 604 keeps it incrementally;
\* in exact arithmetic that is the mean of the members).
WithinThreshold(item, group, thr) ==
    10 * Abs(Len(group) * y_mid(item) - SumYMid(group)) <= Len(group) * thr

\* The loop of lines 599-612 over the sorted fragments; current is the open
\* group (in center order), closed groups are sorted by x (line 607).
RECURSIVE group_loop(_, _, _, _)
group_loop(items, current, done, thr) ==
    IF items = <<>>
    THEN (IF current # <<>> THEN Append(done, SortByX(current)) ELSE done)
    ELSE LET item == Head(items)
         IN  IF current # <<>>
             THEN IF WithinThreshold(item, current, thr)
                  THEN group_loop(Tail(items), Append(current, item), done, thr)
                  ELSE group_loop(Tail(items), <<item>>,
                                  Append(done, SortByX(current)), thr)
             ELSE group_loop(Tail(items), <<item>>, done, thr)

\* _group_fragments_by_line without the sort by center of line 591.
_group_fragments_by_line_unsorted(frags, ls, ratio) ==
    IF frags = <<>> THEN <<>>
    ELSE group_loop(frags, <<>>, <<>>, Threshold(ls, ratio))

\* _group_fragments_by_line(fragments, line_spacing, ratio)
_group_fragments_by_line(frags, ls, ratio) ==
    IF frags = <<>> THEN <<>>
    ELSE group_loop(SortByYMid(frags), <<>>, <<>>, Threshold(ls, ratio))

\* Inputs of the clustering: up to MaxFrags fragments on a small grid, with
\* the line pitches of three layout settings (char_height, multiplier):
\* (1, 1.0), (2, 1.0) and (2, 1.5).
MaxFrags == 3
MaxY == 2
ClusterXs == {0, 1}
ClusterHeights == {0, 1}
ClusterSettings == {<<1, 2>>, <<2, 2>>, <<2, 3>>}
ClusterShapes == [x : ClusterXs, y : 0..MaxY, height : ClusterHeights]
ClusterInput(g) ==
    [i \in DOMAIN g |-> Fragment(i, <<"a">>, g[i].x, g[i].y, 1, g[i].height)]

InitCluster ==
    /\ \E n \in 0..MaxFrags : \E g \in [1..n -> ClusterShapes] :
           fragments = ClusterInput(g)
    /\ \E c \in ClusterSettings : line_spacing = LineSpacing(c[1], c[2])
    /\ groups = None
    /\ BoxIdle
    /\ DetectIdle
    /\ FilterIdle
    /\ LayoutIdle
    /\ FlatIdle
    /\ JoinIdle
    /\ PageIdle
    /\ MarginIdle
    /\ SinkIdle

GroupFragments ==
    /\ groups = None
    /\ groups' = [kind |-> "rows",
                  rows |-> _group_fragments_by_line(fragments, line_spacing,
                                                    same_line_threshold_ratio)]
    /\ UNCHANGED <<fragments, line_spacing, boxVars, detectVars, filterVars, layoutVars, flatVars, joinVars,
                   pageVars, marginVars, sinkVars>>

NextCluster == GroupFragments

SpecCluster == InitCluster /\ [][NextCluster]_vars

(***************************************************************************)
(* Layout engine: OCRJsonToTextLine.convert_regions_to_text_lines, called  *)
(* by the cloud-dialect adapter convert_youdao_json_to_text                *)
(***************************************************************************)
\* ' ' * n
Spaces(n) == [i \in 1..n |-> " "]

\* round(n / d) for n >= 0 and d > 0: Python rounds halves to even.  The
\* quotients of the model are exact in binary floating point wherever they
\* are halves, so the float result is the exact one.
RoundHalfEven(n, d) ==
    LET q == n \div d
        r == n % d
    IN  IF 2 * r < d THEN q
        ELSE IF 2 * r > d THEN q + 1
        ELSE IF q % 2 = 0 THEN q ELSE q + 1

\* The conversion of pixels to spaces with the quotient truncated instead of
\* rounded.
SpacesFor_truncated(px, ch) == (2 * px) \div ch

\* int(round((px / char_height) * 2 * spacing_factor)), spacing_factor = 1
\* (lines 516, 637, 652, 686, 697); px >= 0 at every call.
SpacesFor(px, ch) == RoundHalfEven(2 * px, ch)

\* A canonical Line and Region (from_dict, lines 62-107).
Line(text, x, y, w, h) == [text |-> text, boundingBox |-> BoundingBox(x, y, w, h)]
Region(dir, box, lines) == [dir |-> dir, boundingBox |-> box, lines |-> lines]

\* The identity of the k-th line of region r: its rank among all the lines of
\* the document, in document order.
RECURSIVE LinesBefore(_, _)
LinesBefore(rs, r) == IF r <= 1 THEN 0 ELSE LinesBefore(rs, r - 1) + Len(rs[r - 1].lines)
LineId(rs, r, k) == LinesBefore(rs, r) + k

\* _update_page_dimensions (lines 351-384): the extent of every region and
\* line box of the document; the fields keep their values when there is no
\* region.  Returns <<page_width, page_height>>.
_update_page_dimensions(rs, pw, ph) ==
    IF rs = <<>> THEN <<pw, ph>>
    ELSE LET boxes == {rs[r].boundingBox : r \in DOMAIN rs}
                      \cup UNION {{rs[r].lines[k].boundingBox :
                                       k \in DOMAIN rs[r].lines} : r \in DOMAIN rs}
             all_xs == {b.x : b \in boxes}
             all_ys == {b.y : b \in boxes}
             all_rights == {b.x + b.width : b \in boxes}
             all_bottoms == {b.y + b.height : b \in boxes}
         IN  <<SetMax(all_rights) - SetMin(all_xs),
               SetMax(all_bottoms) - SetMin(all_ys)>>

\* _collect_horizontal_fragments (lines 545-583): one fragment for every line
\* of a horizontal region that has text and passes the box-level chain; the
\* text is stripped.
_collect_horizontal_fragments(rs, bf) ==
    Flatten([r \in DOMAIN rs |->
        IF rs[r].dir # "h" THEN <<>>
        ELSE Flatten([k \in DOMAIN rs[r].lines |->
            LET line == rs[r].lines[k]
                bbox == line.boundingBox
            IN  IF line.text = <<>> THEN <<>>
                ELSE IF _apply_box_filters(bf, LineId(rs, r, k)).keep
                THEN <<Fragment(LineId(rs, r, k), Strip(line.text),
                                bbox.x, bbox.y, bbox.width, bbox.height)>>
                ELSE <<>>])])

\* _determine_text_area_bounds (lines 658-674)
_determine_text_area_bounds(frags) ==
    IF frags = <<>> THEN [left |-> 0, right |-> 0, top |-> 0, bottom |-> 0]
    ELSE [left |-> SetMin({f.x : f \in Range(frags)}),
          right |-> SetMax({f.x + f.width : f \in Range(frags)}),
          top |-> SetMin({f.y : f \in Range(frags)}),
          bottom |-> SetMax({f.y + f.height : f \in Range(frags)})]

\* _compute_chars_per_line (lines 676-689)
_compute_chars_per_line(bounds, ch) ==
    IF ch <= 0 THEN 80
    ELSE Max(20, SpacesFor(bounds.right - bounds.left, ch))

\* _compute_chars_per_line_with_page_width (lines 691-700)
_compute_chars_per_line_with_page_width(pw, ch) ==
    IF pw <= 0 \/ ch <= 0 THEN 80
    ELSE Max(20, SpacesFor(pw, ch))

\* The vertical gap of line 528, in pixels:
\* max(0, min top of the current row - max bottom of the previous row).
gap_px(prev, curr) ==
    Max(0, SetMin({f.y : f \in Range(curr)})
           - SetMax({f.y + f.height : f \in Range(prev)}))

\* _compute_blank_lines_between, with the quotient rounded to the nearest
\* integer instead of truncated.
_compute_blank_lines_between_round(prev, curr, ls) ==
    IF prev = <<>> \/ curr = <<>> \/ ls <= 0 THEN 0
    ELSE Max(0, RoundHalfEven(2 * gap_px(prev, curr), ls))

\* _compute_blank_lines_between (lines 519-534): int(gap_px / line_spacing);
\* ls is in half pixels.
_compute_blank_lines_between(prev, curr, ls) ==
    IF prev = <<>> \/ curr = <<>> \/ ls <= 0 THEN 0
    ELSE Max(0, Trunc(2 * gap_px(prev, curr), ls))

\* _compute_row_indent_spaces with the indentation measured from the page
\* origin instead of the left edge of the text area.
_compute_row_indent_spaces_frompage(row, base_left, ch) ==
    IF row = <<>> THEN 0
    ELSE Max(0, SpacesFor(Max(0, SetMin({f.x : f \in Range(row)})), ch))

\* _compute_row_indent_spaces (lines 504-517); the ValueError of line 509 is
\* the caller's to model (char_height > 0 here).
_compute_row_indent_spaces(row, base_left, ch) ==
    IF row = <<>> THEN 0
    ELSE Max(0, SpacesFor(Max(0, SetMin({f.x : f \in Range(row)}) - base_left), ch))

\* The loop of lines 627-641 with the gap measured from the left edge of the
\* previous fragment instead of its right edge.
RECURSIVE join_parts_fromleft(_, _, _, _)
join_parts_fromleft(row, k, prev_right, ch) ==
    IF k > Len(row) THEN <<>>
    ELSE LET frag == row[k]
             spaces == SpacesFor(Max(0, frag.x - prev_right), ch)
         IN  (IF k = 1 THEN <<>> ELSE Spaces(spaces)) \o frag.text
             \o join_parts_fromleft(row, k + 1, frag.x, ch)

\* The loop of lines 627-641 from fragment k on.
RECURSIVE join_parts(_, _, _, _)
join_parts(row, k, prev_right, ch) ==
    IF k > Len(row) THEN <<>>
    ELSE LET frag == row[k]
             spaces == SpacesFor(Max(0, frag.x - prev_right), ch)
         IN  (IF k = 1 THEN <<>> ELSE Spaces(spaces)) \o frag.text
             \o join_parts(row, k + 1, frag.x + frag.width, ch)

\* _join_fragments_with_spacing (lines 619-656), char_height > 0.
_join_fragments_with_spacing(row, ch, text_area_right) ==
    IF row = <<>> THEN <<>>
    ELSE LET last_frag == row[Len(row)]
             end_gap_px == Max(0, text_area_right - (last_frag.x + last_frag.width))
         IN  join_parts(row, 1, 0, ch)
             \o (IF text_area_right > 0 THEN Spaces(SpacesFor(end_gap_px, ch))
                 ELSE <<>>)

\* The sort of lines 470 and 473 in descending order of x.
RECURSIVE InsertByBoxX_descending(_, _)
InsertByBoxX_descending(e, s) ==
    IF s = <<>> THEN <<e>>
    ELSE IF Head(s).boundingBox.x >= e.boundingBox.x
    THEN <<Head(s)>> \o InsertByBoxX_descending(e, Tail(s))
    ELSE <<e>> \o s

\* sorted(..., key=lambda e: e.boundingBox.x): a stable sort.
RECURSIVE InsertByBoxX(_, _)
InsertByBoxX(e, s) ==
    IF s = <<>> THEN <<e>>
    ELSE IF Head(s).boundingBox.x <= e.boundingBox.x
    THEN <<Head(s)>> \o InsertByBoxX(e, Tail(s))
    ELSE <<e>> \o s

RECURSIVE SortByBoxX(_)
SortByBoxX(s) ==
    IF s = <<>> THEN <<>>
    ELSE InsertByBoxX(s[Len(s)], SortByBoxX(SubSeq(s, 1, Len(s) - 1)))

\* Part 2 of convert_regions_to_text_lines (lines 467-500): the stripped
\* texts of the lines of the vertical regions, regions and lines sorted by
\* the x of their boxes, lines dropped by the box-level chain or without text
\* left out.
vertical_lines(rs, bf) ==
    LET entries == [r \in DOMAIN rs |->
                       [r |-> r, dir |-> rs[r].dir, boundingBox |-> rs[r].boundingBox]]
        vertical_regions == SortByBoxX(SelectSeq(entries, LAMBDA e : e.dir = "v"))
        lines_of(e) ==
            SortByBoxX([k \in DOMAIN rs[e.r].lines |->
                           [id |-> LineId(rs, e.r, k),
                            text |-> rs[e.r].lines[k].text,
                            boundingBox |-> rs[e.r].lines[k].boundingBox]])
        texts_of(e) ==
            LET ls == lines_of(e)
            IN  Flatten([k \in DOMAIN ls |->
                    IF ~_apply_box_filters(bf, ls[k].id).keep THEN <<>>
                    ELSE IF Strip(ls[k].text) = <<>> THEN <<>>
                    ELSE <<Strip(ls[k].text)>>])
    IN  Flatten([v \in DOMAIN vertical_regions |-> texts_of(vertical_regions[v])])

\* The ids of the fragments of a Row, as the row-level chain sees it.
RowIds(row) == [j \in DOMAIN row |-> row[j].id]

\* What convert_youdao_json_to_text returns: the text lines (joined by
\* newlines), or the failure string of line 723 for a caught exception.
TextLines(lines) == [kind |-> "text", lines |-> lines]

\* Documents of the layout engine: up to MaxLines cloud-dialect regions of
\* one line each (the region box is the line box), drawn from LineKinds and
\* listed in the order of LineKinds (list order only breaks ties in the
\* stable sorts).  Horizontal kinds: two fragments on the first text line, one
\* of them taller; two on the second, one of them lower; one on the third; a
\* tall fragment overlapping the lines below it; whitespace-only texts on the
\* second and third line; a line without text.  Vertical kinds: two columns.
MaxLines == 3
LineKinds ==
    << [dir |-> "h", text |-> <<"A">>, x |-> 0, y |-> 0, w |-> 2, h |-> 1],
       [dir |-> "h", text |-> <<"B">>, x |-> 3, y |-> 0, w |-> 2, h |-> 2],
       [dir |-> "h", text |-> <<"C">>, x |-> 6, y |-> 0, w |-> 2, h |-> 8],
       [dir |-> "h", text |-> <<"D">>, x |-> 0, y |-> 3, w |-> 2, h |-> 1],
       [dir |-> "h", text |-> <<" ">>, x |-> 0, y |-> 3, w |-> 2, h |-> 1],
       [dir |-> "h", text |-> <<"E">>, x |-> 3, y |-> 4, w |-> 2, h |-> 1],
       [dir |-> "h", text |-> <<"F">>, x |-> 0, y |-> 7, w |-> 2, h |-> 1],
       [dir |-> "h", text |-> <<" ">>, x |-> 3, y |-> 7, w |-> 2, h |-> 1],
       [dir |-> "h", text |-> <<>>, x |-> 0, y |-> 0, w |-> 2, h |-> 1],
       [dir |-> "v", text |-> <<"V">>, x |-> 9, y |-> 0, w |-> 1, h |-> 2],
       [dir |-> "v", text |-> <<"W">>, x |-> 8, y |-> 0, w |-> 1, h |-> 2] >>
Document(g) ==
    [i \in DOMAIN g |->
        LET k == LineKinds[g[i]]
        IN  Region(k.dir, BoundingBox(k.x, k.y, k.w, k.h),
                   <<Line(k.text, k.x, k.y, k.w, k.h)>>)]

\* Layout settings <<char_height, line_height_multiplier in halves>>: 2 px
\* with multipliers 1.0 and 1.5, and a char_height of 0 given to the
\* constructor (__init__, lines 113-128, stores it unchecked).
LayoutSettings == {<<2, 2>>, <<2, 3>>, <<0, 3>>}
ParamCharHeights == {-1, 0, 2}

\* Row-level chains of the layout engine: none, one predicate that rejects
\* the rows whose first fragment is the second line of the document, one
\* predicate that rejects every row.
RejectRowOf(D) == [i \in 1..MaxLines |-> IF i \in D THEN "F" ELSE "T"]
LayoutRowChains == {<<>>, <<RejectRowOf({2})>>, <<RejectRowOf(1..MaxLines)>>}

InitLayout ==
    /\ \E n \in 0..MaxLines : \E g \in [1..n -> DOMAIN LineKinds] :
           /\ \A i \in 1..n : \A j \in 1..n : i <= j => g[i] <= g[j]
           /\ regions = Document(g)
    /\ \E c \in LayoutSettings :
           char_height = c[1] /\ line_height_multiplier = c[2]
    /\ row_filters \in LayoutRowChains
    /\ box_filters = <<>>
    /\ hadFilters = (row_filters # <<>>)
    /\ filtOut = None
    /\ param_error = None
    /\ page_width = 0 /\ page_height = 0
    /\ pc = "idle"
    /\ grouped = <<>> /\ row_index = 0 /\ prev_row = 0
    /\ text_lines = <<>> /\ origins = <<>> /\ outcome = None
    /\ BoxIdle
    /\ DetectIdle
    /\ ClusterIdle
    /\ FlatIdle
    /\ JoinIdle
    /\ PageIdle
    /\ MarginIdle
    /\ SinkIdle

\* An optional argument: given with a value, or left at its default None.
Arg(v) == [given |-> TRUE, value |-> v]
NoArg == [given |-> FALSE]

\* set_layout_params(char_height=ch, line_height_multiplier=lm), lines
\* 138-154.
set_layout_params(ch, lm) ==
    /\ pc = "idle"
    /\ IF ch.given /\ ch.value <= 0
       THEN /\ param_error' = Raised("ValueError")
            /\ UNCHANGED <<char_height, line_height_multiplier>>
       ELSE /\ param_error' = None
            /\ char_height' = (IF ch.given THEN ch.value ELSE char_height)
            /\ line_height_multiplier' =
                   (IF lm.given THEN lm.value ELSE line_height_multiplier)
    /\ UNCHANGED <<page_width, page_height, regions, pc, grouped, row_index,
                   prev_row, text_lines, origins, outcome>>
    /\ UNCHANGED <<boxVars, detectVars, filterVars, clusterVars, flatVars, joinVars,
                   pageVars, marginVars, sinkVars>>

SetLayoutParams ==
    \E ch \in {Arg(v) : v \in ParamCharHeights} \cup {NoArg} :
        \E lm \in {Arg(c[2]) : c \in LayoutSettings} \cup {NoArg} :
            set_layout_params(ch, lm)

\* convert_youdao_json_to_text up to the row loop: lines 425-439.
StartConvert ==
    /\ pc = "idle"
    /\ LET dims == _update_page_dimensions(regions, page_width, page_height)
           frags == _collect_horizontal_fragments(regions, box_filters)
       IN  /\ page_width' = dims[1]
           /\ page_height' = dims[2]
           /\ IF frags # <<>>
              THEN /\ line_spacing' = LineSpacing(char_height, line_height_multiplier)
                   /\ grouped' = _group_fragments_by_line(frags, line_spacing',
                                                          same_line_threshold_ratio)
                   /\ fragments' = SortByYMid(frags)
                   /\ row_index' = 1
                   /\ pc' = "rows"
              ELSE /\ UNCHANGED <<line_spacing, grouped, fragments, row_index>>
                   /\ pc' = "vertical"
    /\ param_error' = None
    /\ UNCHANGED <<char_height, line_height_multiplier, regions, prev_row,
                   text_lines, origins, outcome>>
    /\ UNCHANGED <<boxVars, detectVars, filterVars, groups, flatVars, joinVars,
                   pageVars, marginVars, sinkVars>>

\* One iteration of the row loop, lines 440-465.  A ValueError raised by
\* _compute_row_indent_spaces (line 509) ends the conversion: the adapter
\* catches it and returns the failure string (line 723).
RowStep ==
    /\ pc = "rows"
    /\ LET row == grouped[row_index]
           bounds == _determine_text_area_bounds(fragments)
           blanks == IF prev_row # 0
                     THEN _compute_blank_lines_between(grouped[prev_row], row,
                                                       line_spacing)
                     ELSE 0
           chars_per_line ==
               IF page_width > 0
               THEN _compute_chars_per_line_with_page_width(page_width, char_height)
               ELSE _compute_chars_per_line(bounds, char_height)
           with_blanks == text_lines \o [i \in 1..blanks |-> Spaces(chars_per_line)]
           with_origins == origins \o [i \in 1..blanks |-> 0]
           next_pc == IF row_index = Len(grouped) THEN "vertical" ELSE "rows"
       IN  IF ~_apply_row_box_filters(row_filters, RowIds(row)).keep
           THEN /\ pc' = next_pc
                /\ row_index' = row_index + 1
                /\ UNCHANGED <<prev_row, text_lines, origins, outcome>>
           ELSE IF char_height <= 0
           THEN /\ pc' = "done"
                /\ outcome' = FailureString
                /\ text_lines' = with_blanks
                /\ origins' = with_origins
                /\ UNCHANGED <<prev_row, row_index>>
           ELSE LET indent_spaces ==
                        _compute_row_indent_spaces(row, bounds.left, char_height)
                    joined == _join_fragments_with_spacing(row, char_height,
                                                           bounds.right)
                    stripped == LStrip(joined)
                IN  /\ pc' = next_pc
                    /\ row_index' = row_index + 1
                    /\ outcome' = outcome
                    /\ IF stripped = <<>>
                       THEN /\ text_lines' = with_blanks
                            /\ origins' = with_origins
                            /\ prev_row' = prev_row
                       ELSE /\ text_lines' =
                                   Append(with_blanks, Spaces(indent_spaces) \o stripped)
                            /\ origins' = Append(with_origins, row_index)
                            /\ prev_row' = row_index
    /\ UNCHANGED <<char_height, line_height_multiplier, param_error, page_width,
                   page_height, regions, grouped>>
    /\ UNCHANGED <<boxVars, detectVars, filterVars, clusterVars, flatVars, joinVars,
                   pageVars, marginVars, sinkVars>>

\* Lines 467-502 and the return of the adapter (line 720).
VerticalLines ==
    /\ pc = "vertical"
    /\ LET texts == vertical_lines(regions, box_filters)
       IN  /\ text_lines' = text_lines \o texts
           /\ origins' = origins \o [i \in DOMAIN texts |-> -1]
           /\ outcome' = TextLines(text_lines')
    /\ pc' = "done"
    /\ UNCHANGED <<char_height, line_height_multiplier, param_error, page_width,
                   page_height, regions, grouped, row_index, prev_row>>
    /\ UNCHANGED <<boxVars, detectVars, filterVars, clusterVars, flatVars, joinVars,
                   pageVars, marginVars, sinkVars>>

NextLayout ==
    \/ SetLayoutParams
    \/ StartConvert
    \/ RowStep
    \/ VerticalLines

SpecLayout == InitLayout /\ [][NextLayout]_vars

(***************************************************************************)
(* Flat-box adapter: convert_rapidocr_json_to_text and                     *)
(* _convert_rapidocr_to_regions, followed by the layout engine             *)
(***************************************************************************)
\* JSON values of an item: a polygon is a list of points, a point a list of
\* coordinates (half pixels) or a number.  form (read by the properties only)
\* says how the item was made: "well" formed, "lacks_key", "bad_polygon",
\* "empty_text", or "other".
PointList(coords) == [type |-> "list", coords |-> coords]
BoxList(points) == [type |-> "list", points |-> points]
FlatDict(txt, box, form) == [t |-> "dict", txt |-> txt, box |-> box, form |-> form]
FlatScalar == [t |-> "num", form |-> "other"]

\* Outcomes of one pass of the loop body of lines 782-842.
Skip == [kind |-> "skip"]
Kept(line) == [kind |-> "line", line |-> line]

\* all(len(point) == 2 for point in box) of line 792 from point k on: "true",
\* "false" at the first point of another length, "TypeError" at a point that
\* has no len().
RECURSIVE all_pairs(_, _)
all_pairs(points, k) ==
    IF k > Len(points) THEN "true"
    ELSE IF points[k].type # "list" THEN "TypeError"
    ELSE IF Len(points[k].coords) # 2 THEN "false"
    ELSE all_pairs(points, k + 1)

\* The loop body of lines 782-842 for one item, up to the box-level chain of
\* line 827 (applied by rapidocr_lines): skipped, a Line, or an exception.
\* len() of a number or of null is a TypeError; the points of a string are
\* its characters, of length 1.
rapidocr_item(item) ==
    IF item.t # "dict" \/ item.txt.type = "missing" \/ item.box.type = "missing"
    THEN Skip
    ELSE IF item.txt.type # "str" THEN Raised("AttributeError")
    ELSE IF Strip(item.txt.chars) = <<>> THEN Skip
    ELSE IF item.box.type \in {"num", "null"} THEN Raised("TypeError")
    ELSE IF item.box.type = "str"
    THEN Skip
    ELSE IF Len(item.box.points) # 4 THEN Skip
    ELSE LET pairs == all_pairs(item.box.points, 1)
         IN  IF pairs = "TypeError" THEN Raised("TypeError")
             ELSE IF pairs = "false" THEN Skip
             ELSE LET b == rapidocr_bbox([i \in 1..4 |-> item.box.points[i].coords])
                  IN  Kept(Line(Strip(item.txt.chars), b.x, b.y, b.width, b.height))

\* temp_lines.sort(key=lambda line: line.boundingBox.y): a stable sort.
RECURSIVE InsertByBoxY(_, _)
InsertByBoxY(e, s) ==
    IF s = <<>> THEN <<e>>
    ELSE IF Head(s).boundingBox.y <= e.boundingBox.y
    THEN <<Head(s)>> \o InsertByBoxY(e, Tail(s))
    ELSE <<e>> \o s

RECURSIVE SortByBoxY(_)
SortByBoxY(s) ==
    IF s = <<>> THEN <<>>
    ELSE InsertByBoxY(s[Len(s)], SortByBoxY(SubSeq(s, 1, Len(s) - 1)))

\* The loop of lines 782-842 from item k on: the Lines kept so far, or the
\* exception that ended the loop.  Line 827 hands the item to the box-level
\* chain bf (the item at position k of the list is item k to the chain) and
\* drops it when the chain rejects it.
RECURSIVE rapidocr_lines(_, _, _, _)
rapidocr_lines(items, k, temp_lines, bf) ==
    IF k > Len(items) THEN [kind |-> "lines", lines |-> temp_lines]
    ELSE LET r == rapidocr_item(items[k])
         IN  IF r.kind = "raised" THEN r
             ELSE IF r.kind = "skip" THEN rapidocr_lines(items, k + 1, temp_lines, bf)
             ELSE IF ~_apply_box_filters(bf, k).keep
             THEN rapidocr_lines(items, k + 1, temp_lines, bf)
             ELSE rapidocr_lines(items, k + 1, Append(temp_lines, r.line), bf)

\* _convert_rapidocr_to_regions (lines 774-871): no Region for an empty list
\* or when no Line is kept, else one horizontal Region holding the Lines in
\* ascending y, its box their union.
_convert_rapidocr_to_regions(items, bf) ==
    IF items = <<>> THEN [kind |-> "regions", regions |-> <<>>]
    ELSE LET r == rapidocr_lines(items, 1, <<>>, bf)
         IN  IF r.kind = "raised" THEN r
             ELSE IF r.lines = <<>> THEN [kind |-> "regions", regions |-> <<>>]
             ELSE LET temp_lines == SortByBoxY(r.lines)
                      boxes == {l.boundingBox : l \in Range(temp_lines)}
                      min_x == SetMin({b.x : b \in boxes})
                      min_y == SetMin({b.y : b \in boxes})
                      region_bbox ==
                          BoundingBox(min_x, min_y,
                                      SetMax({b.x + b.width : b \in boxes}) - min_x,
                                      SetMax({b.y + b.height : b \in boxes}) - min_y)
                  IN  [kind |-> "regions",
                       regions |-> <<Region("h", region_bbox, temp_lines)>>]

\* except (KeyError, TypeError, ValueError) of line 742.
RapidocrCaught == {"KeyError", "TypeError", "ValueError"}

\* Item lists of the flat-box dialect: up to MaxFlatItems items, each of one of
\* FlatShapes; the item at position i of the list has the text FlatTexts[i]
\* where its shape has text.  Coordinates are in half pixels.
MaxFlatItems == 2
FlatTexts == <<"a", "b", "c", "d", "e">>
Quad(x, y) == BoxList(<<PointList(<<x, y>>), PointList(<<x + 8, y>>),
                       PointList(<<x + 8, y + 4>>), PointList(<<x, y + 4>>)>>)
Pair == PointList(<<0, 0>>)
Triple == PointList(<<0, 0, 0>>)
Txt == StrVal(<<"t">>)
FlatShapes ==
    { FlatDict(Txt, Quad(0, 0), "well"),
      FlatDict(Txt, Quad(21, 20), "well"),
      FlatScalar,
      FlatDict(Missing, Quad(0, 0), "lacks_key"),
      FlatDict(Txt, Missing, "lacks_key"),
      FlatDict(StrVal(<<" ">>), Quad(0, 0), "empty_text"),
      FlatDict(StrVal(<<>>), Quad(0, 0), "empty_text"),
      FlatDict(NullVal, Quad(0, 0), "other"),
      FlatDict(Txt, BoxList(<<Pair, Pair, Pair>>), "bad_polygon"),
      FlatDict(Txt, BoxList(<<Pair, Pair, Pair, Pair, Pair>>), "bad_polygon"),
      FlatDict(Txt, BoxList(<<Pair, Pair, Triple, Pair>>), "bad_polygon"),
      FlatDict(Txt, BoxList(<<Triple, NumVal, Pair, Pair>>), "bad_polygon"),
      FlatDict(Txt, BoxList(<<Pair, Pair, Pair, NumVal>>), "bad_polygon"),
      FlatDict(Txt, BoxList(<<NumVal, NumVal, NumVal, NumVal>>), "bad_polygon"),
      FlatDict(Txt, NumVal, "bad_polygon"),
      FlatDict(Txt, NullVal, "bad_polygon"),
      FlatDict(Txt, StrVal(<<"a", "b", "c", "d">>), "bad_polygon") }
FlatItems(g) ==
    [i \in DOMAIN g |->
        IF g[i].t = "dict" /\ g[i].txt = Txt
        THEN [g[i] EXCEPT !.txt = StrVal(<<FlatTexts[i]>>)]
        ELSE g[i]]

InitFlat ==
    /\ \E n \in 0..MaxFlatItems : \E g \in [1..n -> FlatShapes] :
           ocr_items = FlatItems(g)
    /\ char_height = 2 /\ line_height_multiplier = 3
    /\ param_error = None
    /\ page_width = 0 /\ page_height = 0
    /\ regions = <<>>
    /\ pc = "adapter"
    /\ grouped = <<>> /\ row_index = 0 /\ prev_row = 0
    /\ text_lines = <<>> /\ origins = <<>> /\ outcome = None
    /\ BoxIdle
    /\ DetectIdle
    /\ FilterIdle
    /\ ClusterIdle
    /\ JoinIdle
    /\ PageIdle
    /\ MarginIdle
    /\ SinkIdle

\* convert_rapidocr_json_to_text up to line 733: the item list becomes the
\* Regions handed to the layout engine, or an exception ends the conversion:
\* a failure string (line 743) for the caught ones, else it propagates.
RapidocrToRegions ==
    /\ pc = "adapter"
    /\ LET r == _convert_rapidocr_to_regions(ocr_items, box_filters)
       IN  IF r.kind = "raised"
           THEN /\ pc' = "done"
                /\ outcome' = (IF r.exc \in RapidocrCaught THEN FailureString ELSE r)
                /\ UNCHANGED regions
           ELSE /\ pc' = "idle"
                /\ regions' = r.regions
                /\ UNCHANGED outcome
    /\ UNCHANGED <<char_height, line_height_multiplier, param_error, page_width,
                   page_height, grouped, row_index, prev_row, text_lines, origins>>
    /\ UNCHANGED <<boxVars, detectVars, filterVars, clusterVars, flatVars, joinVars,
                   pageVars, marginVars, sinkVars>>

NextFlat ==
    \/ RapidocrToRegions
    \/ StartConvert
    \/ RowStep
    \/ VerticalLines

SpecFlat == InitFlat /\ [][NextFlat]_vars

(***************************************************************************)
(* Row joining: OCRJsonToTextLine._join_fragments_with_spacing on its own  *)
(***************************************************************************)
\* Rows handed to the joining: up to MaxRowFrags fragments in ascending x (line
\* 607 sorts every Row), with or without text (a whitespace-only line is a
\* fragment whose stripped text is empty); fragment k of the row has the text
\* JoinTexts[k].  char_height is positive (line 458 raises before the joining
\* is reached otherwise) and the right edge of the text area is at or beyond
\* every fragment of the row (lines 664-667).
MaxRowFrags == 3
JoinTexts == <<"p", "q", "r", "s", "u">>
JoinXs == {0, 3, 5, 7, 110}
JoinWidths == {2, 10}
JoinCharHeights == {4, 50}
JoinMargins == {0, 6}
JoinShapes == [x : JoinXs, width : JoinWidths, text : BOOLEAN]
JoinRow(g) ==
    [k \in DOMAIN g |->
        Fragment(k, IF g[k].text THEN <<JoinTexts[k]>> ELSE <<>>,
                 g[k].x, 0, g[k].width, 1)]

InitJoin ==
    /\ \E n \in 1..MaxRowFrags : \E g \in [1..n -> JoinShapes] :
           /\ \A i \in 1..n : \A j \in 1..n : i <= j => g[i].x <= g[j].x
           /\ \E ch \in JoinCharHeights : \E margin \in JoinMargins :
                  joinIn = [row |-> JoinRow(g),
                            char_height |-> ch,
                            text_area_right |->
                                SetMax({g[k].x + g[k].width : k \in 1..n}) + margin]
    /\ joinOut = None
    /\ BoxIdle
    /\ DetectIdle
    /\ FilterIdle
    /\ ClusterIdle
    /\ LayoutIdle
    /\ FlatIdle
    /\ PageIdle
    /\ MarginIdle
    /\ SinkIdle

JoinFragments ==
    /\ joinOut = None
    /\ joinOut' = [kind |-> "joined",
                   text |-> _join_fragments_with_spacing(
                                joinIn.row, joinIn.char_height, joinIn.text_area_right)]
    /\ UNCHANGED <<joinIn, boxVars, detectVars, filterVars, clusterVars, layoutVars,
                   flatVars, pageVars, marginVars, sinkVars>>

NextJoin == JoinFragments

SpecJoin == InitJoin /\ [][NextJoin]_vars

(***************************************************************************)
(* The layout engine on one row of three fragments                         *)
(***************************************************************************)
\* Documents of three horizontal cloud-dialect lines "A", "B", "C" at the
\* same vertical position, each in a region of its own, listed in any order:
\* A starts at x0, B gap_ab pixels right of A's right edge, C gap_bc pixels
\* right of B's right edge.
RowGaps == {25, 50, 100}
RowWidths == {0, 20}
RowLefts == {0, 30}
RowTops == {0, 100}
RowCharHeights == {25, 50}
RowOrders == {p \in [1..3 -> 1..3] : \A i \in 1..3 : \E j \in 1..3 : p[j] = i}
RowScenario(x0, w, y, gap_ab, gap_bc) ==
    LET xb == x0 + w + gap_ab
        xc == xb + w + gap_bc
    IN  << Region("h", BoundingBox(x0, y, w, 30), <<Line(<<"A">>, x0, y, w, 30)>>),
           Region("h", BoundingBox(xb, y, w, 30), <<Line(<<"B">>, xb, y, w, 30)>>),
           Region("h", BoundingBox(xc, y, w, 30), <<Line(<<"C">>, xc, y, w, 30)>> ) >>

InitRow ==
    /\ \E x0 \in RowLefts : \E w \in RowWidths : \E y \in RowTops :
       \E gap_ab \in RowGaps : \E gap_bc \in RowGaps : \E p \in RowOrders :
           regions = [i \in 1..3 |-> RowScenario(x0, w, y, gap_ab, gap_bc)[p[i]]]
    /\ char_height \in RowCharHeights
    /\ line_height_multiplier = 3
    /\ param_error = None
    /\ page_width = 0 /\ page_height = 0
    /\ pc = "idle"
    /\ grouped = <<>> /\ row_index = 0 /\ prev_row = 0
    /\ text_lines = <<>> /\ origins = <<>> /\ outcome = None
    /\ BoxIdle
    /\ DetectIdle
    /\ FilterIdle
    /\ ClusterIdle
    /\ FlatIdle
    /\ JoinIdle
    /\ PageIdle
    /\ MarginIdle
    /\ SinkIdle

NextRow ==
    \/ StartConvert
    \/ RowStep
    \/ VerticalLines

SpecRow == InitRow /\ [][NextRow]_vars

(***************************************************************************)
(* The layout engine on rows of fragments at odd pixel positions           *)
(***************************************************************************)
\* Documents of up to MaxShiftLines horizontal cloud-dialect lines, each in a
\* region of its own and listed in the order of ShiftKinds: on one of two
\* text lines (tops 0 and 8), starting at x 0, 1 or 5, 1 or 6 pixels wide,
\* with the text "A" or a text of one space.  char_height is 3 or 4 pixels,
\* so that the pixel distances are odd multiples of a quarter, thirds and
\* whole multiples of char_height; the line pitch is 1.5 char_height.
MaxShiftLines == 3
ShiftXs == <<0, 1, 5>>
ShiftWidths == <<1, 6>>
ShiftTops == <<0, 8>>
ShiftTexts == << <<"A">>, <<" ">> >>
ShiftCharHeights == {3, 4}
ShiftKinds ==
    [i \in 0..23 |->
        [x |-> ShiftXs[(i % 3) + 1], w |-> ShiftWidths[((i \div 3) % 2) + 1],
         text |-> ShiftTexts[((i \div 6) % 2) + 1], y |-> ShiftTops[(i \div 12) + 1]]]
ShiftDocument(g) ==
    [i \in DOMAIN g |->
        LET k == ShiftKinds[g[i]]
        IN  Region("h", BoundingBox(k.x, k.y, k.w, 1),
                   <<Line(k.text, k.x, k.y, k.w, 1)>>)]

InitShift ==
    /\ \E n \in 0..MaxShiftLines : \E g \in [1..n -> DOMAIN ShiftKinds] :
           /\ \A i \in 1..n : \A j \in 1..n : i <= j => g[i] <= g[j]
           /\ regions = ShiftDocument(g)
    /\ char_height \in ShiftCharHeights
    /\ line_height_multiplier = 3
    /\ param_error = None
    /\ page_width = 0 /\ page_height = 0
    /\ pc = "idle"
    /\ grouped = <<>> /\ row_index = 0 /\ prev_row = 0
    /\ text_lines = <<>> /\ origins = <<>> /\ outcome = None
    /\ BoxIdle
    /\ DetectIdle
    /\ FilterIdle
    /\ ClusterIdle
    /\ FlatIdle
    /\ JoinIdle
    /\ PageIdle
    /\ MarginIdle
    /\ SinkIdle

NextShift ==
    \/ StartConvert
    \/ RowStep
    \/ VerticalLines

SpecShift == InitShift /\ [][NextShift]_vars

(***************************************************************************)
(* The layout engine on documents with vertical regions                    *)
(***************************************************************************)
\* Documents of up to MaxColumnRegions cloud-dialect regions drawn from
\* ColumnKinds, in any order: a horizontal region right of all the others; a
\* vertical region at x = 6 whose two lines are listed right to left; a
\* vertical region at x = 2 with a line of text and a whitespace-only line; a
\* second vertical region at x = 6; a vertical region at x = 4 whose only
\* line has no text.
MaxColumnRegions == 3
ColumnKinds ==
    << Region("h", BoundingBox(9, 0, 2, 1), <<Line(<<"A">>, 9, 0, 2, 1)>>),
       Region("v", BoundingBox(6, 0, 2, 4),
              <<Line(<<"V">>, 7, 0, 1, 4), Line(<<" ", "W">>, 6, 0, 1, 4)>>),
       Region("v", BoundingBox(2, 0, 2, 4),
              <<Line(<<"X", " ">>, 2, 0, 1, 4), Line(<<" ">>, 3, 0, 1, 4)>>),
       Region("v", BoundingBox(6, 5, 1, 4), <<Line(<<"Y">>, 6, 5, 1, 4)>>),
       Region("v", BoundingBox(4, 0, 1, 4), <<Line(<<>>, 4, 0, 1, 4)>>) >>

\* Box-level chains for these documents: none, and one predicate that
\* rejects the second line of the document.
RejectLineOf(D) == [i \in 1..(2 * MaxColumnRegions) |-> IF i \in D THEN "F" ELSE "T"]
ColumnBoxChains == {<<>>, <<RejectLineOf({2})>>}

InitColumns ==
    /\ \E n \in 0..MaxColumnRegions : \E g \in [1..n -> DOMAIN ColumnKinds] :
           regions = [i \in 1..n |-> ColumnKinds[g[i]]]
    /\ char_height = 2
    /\ line_height_multiplier = 3
    /\ box_filters \in ColumnBoxChains
    /\ row_filters = <<>>
    /\ hadFilters = (box_filters # <<>>)
    /\ filtOut = None
    /\ param_error = None
    /\ page_width = 0 /\ page_height = 0
    /\ pc = "idle"
    /\ grouped = <<>> /\ row_index = 0 /\ prev_row = 0
    /\ text_lines = <<>> /\ origins = <<>> /\ outcome = None
    /\ BoxIdle
    /\ DetectIdle
    /\ ClusterIdle
    /\ FlatIdle
    /\ JoinIdle
    /\ PageIdle
    /\ MarginIdle
    /\ SinkIdle

NextColumns ==
    \/ StartConvert
    \/ RowStep
    \/ VerticalLines

SpecColumns == InitColumns /\ [][NextColumns]_vars

(***************************************************************************)
(* Converter reuse: successive conversions on one OCRJsonToTextLine that   *)
(* has page-dependent predicates of ocr_json_filters.py in its box chain   *)
(***************************************************************************)
\* page_info of lines 568-571 and 821-824: the fields of the converter at
\* the time the dictionary is built.
page_info(pw, ph) == [page_width |-> pw, page_height |-> ph]

\* filter_left_sidebar (ocr_json_filters.py, lines 91-101): keeps what starts
\* at or right of 0.2 * page_width.
filter_left_sidebar(data, info) ==
    IF info.page_width <= 0 THEN TRUE ELSE 5 * data.x >= info.page_width

\* filter_page_number (ocr_json_filters.py, lines 78-89): rejects what lies
\* at or below 0.9 * page_height and has digits only, spaces not counted.
filter_page_number(data, info) ==
    ~(/\ 10 * data.y >= 9 * info.page_height
      /\ \A i \in DOMAIN data.text : IsDigit(data.text[i]) \/ IsSpace(data.text[i]))

\* filter_func(box_data, page_info) for a predicate held by name.
CallFilter(name, data, info) ==
    IF name = "filter_left_sidebar" THEN filter_left_sidebar(data, info)
    ELSE filter_page_number(data, info)

\* What a chain of named predicates does on each of the box_data in datas
\* when every call is handed the same page_info: a chain of verdicts.
BoundChain(names, datas, info) ==
    [k \in DOMAIN names |->
        [i \in DOMAIN datas |->
            IF CallFilter(names[k], datas[i], info) THEN "T" ELSE "F"]]

\* box_data of a Line (lines 556-565, 810-818).
line_box_data(line) ==
    [text |-> Strip(line.text), x |-> line.boundingBox.x, y |-> line.boundingBox.y,
     width |-> line.boundingBox.width, height |-> line.boundingBox.height]

\* The lines of a document in the order of their LineId.
RegionLines(rs) == Flatten([r \in DOMAIN rs |-> rs[r].lines])

\* The calls one pass over the items makes: for each item in order and each
\* predicate its chain reaches, the predicate, the text of the item and the
\* page_info handed over.
pass_calls(names, datas, info) ==
    LET bf == BoundChain(names, datas, info)
    IN  Flatten([i \in DOMAIN datas |->
            LET reached == _apply_box_filters(bf, i).calls
            IN  [c \in DOMAIN reached |->
                    [filter |-> names[reached[c]], text |-> datas[i].text,
                     page_info |-> info]]])

\* The row loop of convert_regions_to_text_lines (lines 440-465) from Row k
\* on, as a function: c holds the Rows, the fragments, the row-level chain,
\* char_height, the line pitch and page_width; prev is the index of prev_row
\* (0: None), lines the text lines so far.
RECURSIVE row_loop(_, _, _, _)
row_loop(c, k, prev, lines) ==
    IF k > Len(c.rows) THEN [kind |-> "lines", lines |-> lines]
    ELSE LET row == c.rows[k]
             bounds == _determine_text_area_bounds(c.frags)
             blanks == IF prev # 0
                       THEN _compute_blank_lines_between(c.rows[prev], row, c.ls)
                       ELSE 0
             chars_per_line ==
                 IF c.pw > 0
                 THEN _compute_chars_per_line_with_page_width(c.pw, c.ch)
                 ELSE _compute_chars_per_line(bounds, c.ch)
             with_blanks == lines \o [i \in 1..blanks |-> Spaces(chars_per_line)]
         IN  IF ~_apply_row_box_filters(c.rf, RowIds(row)).keep
             THEN row_loop(c, k + 1, prev, lines)
             ELSE IF c.ch <= 0 THEN Raised("ValueError")
             ELSE LET indent_spaces ==
                          _compute_row_indent_spaces(row, bounds.left, c.ch)
                      stripped == LStrip(_join_fragments_with_spacing(
                                             row, c.ch, bounds.right))
                  IN  IF stripped = <<>>
                      THEN row_loop(c, k + 1, prev, with_blanks)
                      ELSE row_loop(c, k + 1, k,
                                    Append(with_blanks, Spaces(indent_spaces) \o stripped))

\* convert_regions_to_text_lines (lines 420-502) after the page dimensions
\* are known, as a function of the chains as they act on the lines of rs:
\* the text lines returned, or the failure string of the adapter.
convert_regions_to_text_lines(rs, bf, rf, ch, lhm2, pw) ==
    LET frags == _collect_horizontal_fragments(rs, bf)
        ls == LineSpacing(ch, lhm2)
        r == IF frags = <<>> THEN [kind |-> "lines", lines |-> <<>>]
             ELSE row_loop([rows |-> _group_fragments_by_line(
                                         frags, ls, same_line_threshold_ratio),
                            frags |-> frags, rf |-> rf, ch |-> ch, ls |-> ls,
                            pw |-> pw], 1, 0, <<>>)
    IN  IF r.kind = "raised" THEN FailureString
        ELSE TextLines(r.lines \o vertical_lines(rs, bf))

\* What a conversion leaves behind and returns: the fields of the converter,
\* the predicate calls made, the text returned and the texts of the lines the
\* box-level chain rejected.
Conversion(pw, ph, calls, text, rejected) ==
    [page_width |-> pw, page_height |-> ph, calls |-> calls, text |-> text,
     rejected |-> rejected]

\* The texts of the lines the chain bf drops from datas.
Rejected(bf, datas) ==
    {datas[i].text : i \in {j \in DOMAIN datas : ~_apply_box_filters(bf, j).keep}}

\* convert_regions_to_text_lines with the named predicates names on a
\* converter whose fields are pw, ph (the documents of this component have
\* horizontal regions whose lines all have text): line 543 updates the
\* fields, lines 568-574 hand them to the chain.
convert_regions(rs, names, pw, ph, ch, lhm2) ==
    LET dims == _update_page_dimensions(rs, pw, ph)
        info == page_info(dims[1], dims[2])
        datas == [i \in DOMAIN RegionLines(rs) |-> line_box_data(RegionLines(rs)[i])]
        bf == BoundChain(names, datas, info)
    IN  Conversion(dims[1], dims[2], pass_calls(names, datas, info),
                   convert_regions_to_text_lines(rs, bf, <<>>, ch, lhm2, dims[1]),
                   Rejected(bf, datas))

\* convert_youdao_json_to_text (lines 702-723) on well-formed regions.
convert_youdao(rs, names, pw, ph, ch, lhm2) ==
    convert_regions(rs, names, pw, ph, ch, lhm2)

\* convert_rapidocr_json_to_text (lines 725-743) on well-formed items: the
\* adapter hands each item to the chain with the fields as they are (lines
\* 821-827), then the layout engine converts the Region of the lines kept.
convert_rapidocr(items, names, pw, ph, ch, lhm2) ==
    LET stale == page_info(pw, ph)
        datas == [k \in DOMAIN items |-> line_box_data(rapidocr_item(items[k]).line)]
        bf == BoundChain(names, datas, stale)
        rs == _convert_rapidocr_to_regions(items, bf).regions
        rest == convert_regions(rs, names, pw, ph, ch, lhm2)
    IN  Conversion(rest.page_width, rest.page_height,
                   pass_calls(names, datas, stale) \o rest.calls,
                   rest.text, Rejected(bf, datas) \cup rest.rejected)

\* convert_pymupdf_json_to_text (lines 745-772) on one well-formed page of
\* positive size whose blocks are the regions rs: the adapter stores the
\* page size (lines 1036-1039) and calls no predicate.
convert_pymupdf(rs, size, names, pw, ph, ch, lhm2) ==
    convert_regions(rs, names, size[1], size[2], ch, lhm2)

\* Documents of this component: up to MaxPageLines of the lines PageKinds
\* (pixels), in this order: two lines of letters, a wide line of digits low
\* on the page, a line of digits at the top.
MaxPageLines == 2
PageKinds ==
    << [text |-> <<"a">>, x |-> 10, y |-> 0, w |-> 4, h |-> 2],
       [text |-> <<"b">>, x |-> 14, y |-> 4, w |-> 4, h |-> 2],
       [text |-> <<"7">>, x |-> 0, y |-> 40, w |-> 40, h |-> 2],
       [text |-> <<"8">>, x |-> 12, y |-> 1, w |-> 4, h |-> 2] >>
PageDocs ==
    UNION {{g \in [1..n -> DOMAIN PageKinds] :
                \A i \in 1..n : \A j \in 1..n : i < j => g[i] < g[j]} :
           n \in 0..MaxPageLines}
\* The document g in the cloud dialect (and as the blocks of a PDF page): one
\* horizontal region per line.
PageRegions(g) ==
    [i \in DOMAIN g |->
        LET k == PageKinds[g[i]]
        IN  Region("h", BoundingBox(k.x, k.y, k.w, k.h),
                   <<Line(k.text, k.x, k.y, k.w, k.h)>>)]
\* The document g in the flat-box dialect; coordinates in half pixels.
PageItems(g) ==
    [i \in DOMAIN g |->
        LET k == PageKinds[g[i]]
            l == 2 * k.x
            t == 2 * k.y
            r == 2 * (k.x + k.w)
            b == 2 * (k.y + k.h)
        IN  FlatDict(StrVal(k.text),
                     BoxList(<<PointList(<<l, t>>), PointList(<<r, t>>),
                               PointList(<<r, b>>), PointList(<<l, b>>)>>), "well")]
PdfPageSize == <<50, 60>>
PageChains ==
    {<<>>, <<"filter_left_sidebar">>, <<"filter_page_number">>,
     <<"filter_left_sidebar", "filter_page_number">>}
Dialects == {"youdao", "rapidocr", "pymupdf"}

\* One conversion of document g in dialect d on a converter with fields pw, ph.
convert(d, g, names, pw, ph, ch, lhm2) ==
    IF d = "youdao" THEN convert_youdao(PageRegions(g), names, pw, ph, ch, lhm2)
    ELSE IF d = "rapidocr" THEN convert_rapidocr(PageItems(g), names, pw, ph, ch, lhm2)
    ELSE convert_pymupdf(PageRegions(g), PdfPageSize, names, pw, ph, ch, lhm2)

\* A new converter (__init__, lines 113-128) with a box chain installed.
InitPage ==
    /\ box_filters \in PageChains
    /\ row_filters = <<>>
    /\ hadFilters = (box_filters # <<>>)
    /\ filtOut = None
    /\ char_height = 2 /\ line_height_multiplier = 3
    /\ param_error = None
    /\ page_width = 0 /\ page_height = 0
    /\ regions = <<>>
    /\ pc = "idle"
    /\ grouped = <<>> /\ row_index = 0 /\ prev_row = 0
    /\ text_lines = <<>> /\ origins = <<>> /\ outcome = None
    /\ PageIdle
    /\ BoxIdle
    /\ DetectIdle
    /\ ClusterIdle
    /\ FlatIdle
    /\ JoinIdle
    /\ MarginIdle
    /\ SinkIdle

\* One conversion, from entry to return, of a document in dialect d.
Convert(d) ==
    \E g \in PageDocs :
        \E r \in {convert(d, g, box_filters, page_width, page_height,
                          char_height, line_height_multiplier)} :
            /\ page_doc' = [dialect |-> d, doc |-> g]
            /\ page_width' = r.page_width
            /\ page_height' = r.page_height
            /\ page_calls' = r.calls
            /\ page_out' = [text |-> r.text, rejected |-> r.rejected]
            /\ UNCHANGED <<char_height, line_height_multiplier, param_error,
                           regions, pc, grouped, row_index, prev_row, text_lines,
                           origins, outcome>>
            /\ UNCHANGED <<boxVars, detectVars, filterVars, clusterVars, flatVars,
                           joinVars, marginVars, sinkVars>>

ConvertYoudao == Convert("youdao")
ConvertRapidocr == Convert("rapidocr")
ConvertPymupdf == Convert("pymupdf")

NextPage ==
    \/ ConvertYoudao
    \/ ConvertRapidocr
    \/ ConvertPymupdf

SpecPage == InitPage /\ [][NextPage]_vars

(***************************************************************************)
(* Margin detector: PageBodyDetector of detect_page_body.py                *)
(***************************************************************************)
\* Exact fractions <<numerator, denominator>> in lowest terms, denominator
\* positive: the densities, gradients and scores the detector computes.
RECURSIVE GCD(_, _)
GCD(a, b) == IF b = 0 THEN a ELSE GCD(b, a % b)
Frac(n, d) ==
    LET g == GCD(Abs(n), Abs(d))
    IN  IF d > 0 THEN <<n \div g, d \div g>> ELSE <<(-n) \div g, (-d) \div g>>
FracSub(a, b) == Frac(a[1] * b[2] - b[1] * a[2], a[2] * b[2])
FracAdd(a, b) == Frac(a[1] * b[2] + b[1] * a[2], a[2] * b[2])
FracHalf(a) == Frac(a[1], 2 * a[2])
FracAbs(a) == <<Abs(a[1]), a[2]>>
FracLess(a, b) == a[1] * b[2] < b[1] * a[2]

\* A binarized page: width x height pixels, blank or with one rectangle of
\* ink on columns x0..x1-1 and rows y0..y1-1.  zero says which pixels the
\* binarization made 0: the ink (cv2.threshold, line 90) or the paper
\* (img_array < threshold, lines 120-121).
Blank == [kind |-> "blank"]
Rectangle(x0, x1, y0, y1) == [kind |-> "rectangle", x0 |-> x0, x1 |-> x1, y0 |-> y0, y1 |-> y1]
Binary(w, h, ink, zero) == [width |-> w, height |-> h, ink |-> ink, zero |-> zero]

\* The number of integers in both a..b-1 and c..d-1.
Overlap(a, b, c, d) == Max(0, Min(b, d) - Max(a, c))

\* np.sum(window == 0) for the window of columns xs..xe-1 and rows ys..ye-1.
zero_pixels(binary, xs, xe, ys, ye) ==
    LET total == Max(0, xe - xs) * Max(0, ye - ys)
        inked == IF binary.ink.kind = "blank" THEN 0
                 ELSE Overlap(xs, xe, binary.ink.x0, binary.ink.x1)
                      * Overlap(ys, ye, binary.ink.y0, binary.ink.y1)
    IN  IF binary.zero = "ink" THEN inked ELSE total - inked

\* _calculate_black_density_horizontal (lines 270-293)
_calculate_black_density_horizontal(binary, x_pos, window_size) ==
    LET x_start == Max(0, x_pos - window_size \div 2)
        x_end == Min(binary.width, x_pos + window_size \div 2)
        total_pixels == Max(0, x_end - x_start) * binary.height
    IN  IF total_pixels > 0
        THEN Frac(zero_pixels(binary, x_start, x_end, 0, binary.height), total_pixels)
        ELSE <<0, 1>>

\* _calculate_black_density_vertical (lines 295-318)
_calculate_black_density_vertical(binary, y_pos, window_size) ==
    LET y_start == Max(0, y_pos - window_size \div 2)
        y_end == Min(binary.height, y_pos + window_size \div 2)
        total_pixels == Max(0, y_end - y_start) * binary.width
    IN  IF total_pixels > 0
        THEN Frac(zero_pixels(binary, 0, binary.width, y_start, y_end), total_pixels)
        ELSE <<0, 1>>

\* _calculate_gradients (lines 320-343): one-sided differences at the ends,
\* central differences between.
_calculate_gradients(densities) ==
    IF Len(densities) < 2 THEN [i \in DOMAIN densities |-> <<0, 1>>]
    ELSE [i \in DOMAIN densities |->
             IF i = 1 THEN FracSub(densities[2], densities[1])
             ELSE IF i = Len(densities) THEN FracSub(densities[i], densities[i - 1])
             ELSE FracHalf(FracSub(densities[i + 1], densities[i - 1]))]

\* np.argmax over doubles: the first index of the largest value.  Values
\* that are equal as exact fractions may differ in their last bit as doubles
\* (a one-sided and a central difference of the same size), so the index is
\* any one of those of the largest exact value.
argmax(values) ==
    {i \in DOMAIN values : \A j \in DOMAIN values : ~FracLess(values[i], values[j])}

\* abs_gradients[max_grad_idx] > self.gradient_threshold (line 367) choosing
\* between two results.  A gradient that is exactly the threshold and not 0
\* may come out on either side of it as a double.
exceeds(gradient, threshold, then, else) ==
    IF FracLess(<<threshold, 100>>, gradient) THEN {then}
    ELSE IF gradient = Frac(threshold, 100) /\ threshold # 0 THEN {then, else}
    ELSE {else}

\* _find_gradient_peak (lines 345-371), mutated: falls back to the last
\* position scanned.
_find_gradient_peak_last(positions, gradients, threshold) ==
    IF positions = <<>> THEN {0}
    ELSE LET abs_gradients == [i \in DOMAIN gradients |-> FracAbs(gradients[i])]
         IN  UNION {exceeds(abs_gradients[max_grad_idx], threshold,
                            positions[max_grad_idx], positions[Len(positions)]) :
                    max_grad_idx \in argmax(abs_gradients)}

\* _find_gradient_peak without the threshold test of line 367: the position
\* of the largest gradient whatever its size.
_find_gradient_peak_unthresholded(positions, gradients, threshold) ==
    IF positions = <<>> \/ gradients = <<>>
    THEN {IF positions # <<>> THEN positions[1] ELSE 0}
    ELSE LET abs_gradients == [i \in DOMAIN gradients |-> FracAbs(gradients[i])]
         IN  {positions[max_grad_idx] : max_grad_idx \in argmax(abs_gradients)}

\* _find_gradient_peak (lines 345-371); threshold in hundredths.  The set of
\* the positions it can return.
_find_gradient_peak(positions, gradients, threshold) ==
    IF positions = <<>> \/ gradients = <<>>
    THEN {IF positions # <<>> THEN positions[1] ELSE 0}
    ELSE LET abs_gradients == [i \in DOMAIN gradients |-> FracAbs(gradients[i])]
         IN  UNION {exceeds(abs_gradients[max_grad_idx], threshold,
                            positions[max_grad_idx], positions[1]) :
                    max_grad_idx \in argmax(abs_gradients)}

\* The detector's parameters (lines 40-58): the ratios and the threshold in
\* hundredths.
Detector(rw, rh, ws, thr) ==
    [body_ratio_width |-> rw, body_ratio_height |-> rh, window_size |-> ws,
     gradient_threshold |-> thr]

\* The scan of lines 227-254 with the left and top scans running inward,
\* from initial_pos up, as the right and bottom scans run outward.
scan_positions_inward(binary, initial_pos, direction, self) ==
    LET limit == IF direction \in {"left", "right"} THEN binary.width ELSE binary.height
        search_range ==
            [i \in 1..Max(0, binary.width - initial_pos) |-> initial_pos + i - 1]
    IN  SelectSeq(search_range,
                  LAMBDA pos : ~(pos < self.window_size
                                 \/ pos > limit - self.window_size))

\* The positions the loop of lines 241-254 keeps, in scan order: the scan
\* runs from initial_pos down to 1 for left and top, and from initial_pos up
\* to width - 1 for right and bottom (line 234 takes width for both); a
\* position closer than window_size to either border is skipped.
scan_positions(binary, initial_pos, direction, self) ==
    LET limit == IF direction \in {"left", "right"} THEN binary.width ELSE binary.height
        search_range ==
            IF direction \in {"left", "top"}
            THEN [i \in 1..Max(0, initial_pos) |-> initial_pos - i + 1]
            ELSE [i \in 1..Max(0, binary.width - initial_pos) |-> initial_pos + i - 1]
    IN  SelectSeq(search_range,
                  LAMBDA pos : ~(pos < self.window_size
                                 \/ pos > limit - self.window_size))

\* The densities of lines 246 / 251 at the positions kept.
scan_densities(binary, positions, direction, self) ==
    [i \in DOMAIN positions |->
        IF direction \in {"left", "right"}
        THEN _calculate_black_density_horizontal(binary, positions[i], self.window_size)
        ELSE _calculate_black_density_vertical(binary, positions[i], self.window_size)]

\* _detect_boundary_sliding_window (lines 208-268): the set of the positions
\* it can return.
_detect_boundary_sliding_window(binary, initial_pos, direction, self) ==
    LET positions == scan_positions(binary, initial_pos, direction, self)
        densities == scan_densities(binary, positions, direction, self)
    IN  IF Len(densities) < 3 THEN {initial_pos}
        ELSE _find_gradient_peak(positions, _calculate_gradients(densities),
                                 self.gradient_threshold)

\* int(size * (1 - ratio) / 2) and int(size * (1 + ratio) / 2) of lines
\* 152-153 and 187-188, in double precision: exact for the ratios 0.5, 0.75
\* and 1.0; 1 - 0.8 is 0.19999999999999996, which puts the product just
\* below size / 10 when that is a whole number.
initial_low(size, ratio) ==
    IF ratio = 80 /\ size > 0 /\ size % 10 = 0 THEN size \div 10 - 1
    ELSE (size * (100 - ratio)) \div 200
initial_high(size, ratio) == (size * (100 + ratio)) \div 200

\* _detect_horizontal_margins (lines 138-171): the pairs <<left, right>>
_detect_horizontal_margins(binary, self) ==
    _detect_boundary_sliding_window(
        binary, initial_low(binary.width, self.body_ratio_width), "left", self)
    \X _detect_boundary_sliding_window(
           binary, initial_high(binary.width, self.body_ratio_width), "right", self)

\* _detect_vertical_margins (lines 173-206): the pairs <<top, bottom>>
_detect_vertical_margins(binary, self) ==
    _detect_boundary_sliding_window(
        binary, initial_low(binary.height, self.body_ratio_height), "top", self)
    \X _detect_boundary_sliding_window(
           binary, initial_high(binary.height, self.body_ratio_height), "bottom", self)

\* _calculate_confidence (lines 373-404): the mean of the two scores
\* 1 - |ratio - 0.75| / 0.75, clamped to 0..1.
_calculate_confidence(binary, left, right, top, bottom) ==
    IF left >= right \/ top >= bottom THEN <<0, 1>>
    ELSE LET width_score ==
                 FracSub(<<1, 1>>, Frac(Abs(4 * (right - left) - 3 * binary.width),
                                        3 * binary.width))
             height_score ==
                 FracSub(<<1, 1>>, Frac(Abs(4 * (bottom - top) - 3 * binary.height),
                                        3 * binary.height))
             confidence == FracHalf(FracAdd(width_score, height_score))
         IN  IF FracLess(confidence, <<0, 1>>) THEN <<0, 1>>
             ELSE IF FracLess(<<1, 1>>, confidence) THEN <<1, 1>>
             ELSE confidence

\* PageMargin (lines 28-35)
PageMargin(left, right, top, bottom, confidence) ==
    [left |-> left, right |-> right, top |-> top, bottom |-> bottom,
     confidence |-> confidence]

\* _detect_with_opencv / _detect_with_pil from the binarized image on
\* (lines 93-105, 124-136): the PageMargins it can return.
detect(binary, self) ==
    {PageMargin(h[1], h[2], v[1], v[2],
                _calculate_confidence(binary, h[1], h[2], v[1], v[2])) :
         <<h, v>> \in _detect_horizontal_margins(binary, self)
                      \X _detect_vertical_margins(binary, self)}

\* Pages: blank, or with one centered rectangle of ink over 60% of the width
\* and 70% of the height.  Small pages, with sides of 0..MaxSide and of 20
\* pixels, go to detectors with ratios of 0.5, 0.75, 0.8 and 1.0, windows of
\* 0..MaxWindow pixels and thresholds of 0 and 0.1; large pages go to the
\* default detector (0.8, 20, 0.1) and to one with ratios of 0.5.
MaxSide == 3
MaxWindow == 2
DefaultRatio == 80
DefaultWindow == 20
DefaultThreshold == 10
SmallSides == (0..MaxSide) \cup {20}
LargeSides == {100, 300, 400}
Ratios == {50, 75, DefaultRatio, 100}
Thresholds == {0, DefaultThreshold}
CenteredRectangle(w, h) ==
    Rectangle((w * 20) \div 100, (w * 80) \div 100, (h * 15) \div 100, (h * 85) \div 100)
Pages(sides) ==
    UNION {{Binary(w, h, Blank, zero), Binary(w, h, CenteredRectangle(w, h), zero)} :
           <<w, h, zero>> \in sides \X sides \X {"ink", "paper"}}

InitMargin ==
    /\ \/ /\ image \in Pages(SmallSides)
          /\ \E rw \in Ratios : \E rh \in Ratios : \E ws \in 0..MaxWindow :
             \E thr \in Thresholds : detector = Detector(rw, rh, ws, thr)
       \/ /\ image \in Pages(LargeSides)
          /\ \E r \in {50, DefaultRatio} :
                 detector = Detector(r, r, DefaultWindow, DefaultThreshold)
    /\ page_margin = None
    /\ BoxIdle
    /\ DetectIdle
    /\ FilterIdle
    /\ ClusterIdle
    /\ LayoutIdle
    /\ FlatIdle
    /\ JoinIdle
    /\ PageIdle
    /\ SinkIdle

\* detect_from_image (lines 60-75) from the binarized image on.
DetectFromImage ==
    /\ page_margin = None
    /\ page_margin' \in detect(image, detector)
    /\ UNCHANGED <<image, detector>>
    /\ UNCHANGED <<boxVars, detectVars, filterVars, clusterVars, layoutVars,
                   flatVars, joinVars, pageVars, sinkVars>>

NextMargin == DetectFromImage

SpecMargin == InitMargin /\ [][NextMargin]_vars

(***************************************************************************)
(* Rejection log: conversions appending to log files through               *)
(* OCRJsonToTextLine._log_filtered_item                                    *)
(***************************************************************************)
\* A log file is the sequence of what was written to it: BOM (the byte order
\* mark of utf-8-sig), NL (a newline) and pieces of text.  The text of the
\* k-th entry of conversion c (log_msg, line 243) is a head and a body.
BOM == [conv |-> 0, n |-> 0, part |-> "BOM"]
NL == [conv |-> 0, n |-> 0, part |-> "NL"]
LogMsg(c, k) ==
    <<[conv |-> c, n |-> k, part |-> "head"], [conv |-> c, n |-> k, part |-> "body"]>>

\* What the utf-8-sig encoder of a file object writes for text: the mark
\* first if the file was empty when it was opened (io.TextIOWrapper reads the
\* position when the file is opened for appending), then the text.
Encode(bom, text) == (IF bom THEN <<BOM>> ELSE <<>>) \o text

\* Log files: the default file name of __init__ (line 124), shared by all
\* converters that were given no other, and one set with set_log_file.  A
\* file is absent or empty, or holds an entry of an earlier run.
Paths == {"ocr_json2text_line_filter.log", "other.log"}
Conversions == {1, 2}
MaxRejections == 2
EarlierLog == Encode(TRUE, LogMsg(0, 1) \o <<NL>>)

\* A conversion in progress: the log file of its converter, the rejections it
\* still has to make and those it has logged, and where it is in lines
\* 251-252: between two rejections ("filtering") or inside the with block,
\* the file opened and nothing written yet ("open"); bom is what its file
\* object found when it opened the file.
Writer(log_file, todo) ==
    [log_file |-> log_file, todo |-> todo, done |-> 0, pc |-> "filtering", bom |-> FALSE]

InitSink ==
    /\ sinks \in [Paths -> {<<>>, EarlierLog}]
    /\ writers \in [Conversions -> {Writer(p, n) : <<p, n>> \in Paths \X (0..MaxRejections)}]
    /\ BoxIdle
    /\ DetectIdle
    /\ FilterIdle
    /\ ClusterIdle
    /\ LayoutIdle
    /\ FlatIdle
    /\ JoinIdle
    /\ PageIdle
    /\ MarginIdle

\* open(self.log_file, 'a', encoding='utf-8-sig') of line 251 in conversion c:
\* the file is created if absent and never truncated.
OpenLog(c) ==
    /\ writers[c].pc = "filtering"
    /\ writers[c].todo > 0
    /\ writers' = [writers EXCEPT ![c].pc = "open",
                                  ![c].bom = (sinks[writers[c].log_file] = <<>>)]
    /\ UNCHANGED sinks
    /\ UNCHANGED <<boxVars, detectVars, filterVars, clusterVars, layoutVars,
                   flatVars, joinVars, pageVars, marginVars>>

\* f.write(log_msg + '\n') and the end of the with block (lines 252-253):
\* the buffered text reaches the file in one write at its end.
WriteLog(c) ==
    /\ writers[c].pc = "open"
    /\ sinks' = [sinks EXCEPT ![writers[c].log_file] =
                    @ \o Encode(writers[c].bom,
                                LogMsg(c, writers[c].done + 1) \o <<NL>>)]
    /\ writers' = [writers EXCEPT ![c].pc = "filtering",
                                  ![c].todo = @ - 1,
                                  ![c].done = @ + 1]
    /\ UNCHANGED <<boxVars, detectVars, filterVars, clusterVars, layoutVars,
                   flatVars, joinVars, pageVars, marginVars>>

OpenLogFile == \E c \in Conversions : OpenLog(c)
WriteLogEntry == \E c \in Conversions : WriteLog(c)

NextSink ==
    \/ OpenLogFile
    \/ WriteLogEntry

SpecSink == InitSink /\ [][NextSink]_vars

(***************************************************************************)
(* Properties of the BoundingBox component (specification SpecBox)         *)
(***************************************************************************)
PointXs(p) == {p[1], p[3], p[5], p[7]}
PointYs(p) == {p[2], p[4], p[6], p[8]}

\* C8: a string "x,y,w,h" written from four integers parses to exactly
\* BoundingBox(x, y, w, h); a string written from the eight coordinates of four
\* points parses to the axis-aligned bounding rectangle of the points
\* (x = min x, y = min y, width = max x - min x, height = max y - min y),
\* whatever the order of the points.
C8_RoundTrip ==
    (boxResult # None /\ boxInput.type = "str") =>
        /\ boxInput.form = "four" =>
              boxResult = Returned(BoundingBox(boxInput.of[1], boxInput.of[2],
                                               boxInput.of[3], boxInput.of[4]))
        /\ boxInput.form = "eight" =>
              /\ boxResult.kind = "returned"
              /\ \A px \in PointXs(boxInput.of) : boxResult.box.x <= px
              /\ \A py \in PointYs(boxInput.of) : boxResult.box.y <= py
              /\ boxResult.box.x \in PointXs(boxInput.of)
              /\ boxResult.box.y \in PointYs(boxInput.of)
              /\ boxResult.box.x + boxResult.box.width \in PointXs(boxInput.of)
              /\ boxResult.box.y + boxResult.box.height \in PointYs(boxInput.of)
              /\ \A px \in PointXs(boxInput.of) :
                     px <= boxResult.box.x + boxResult.box.width
              /\ \A py \in PointYs(boxInput.of) :
                     py <= boxResult.box.y + boxResult.box.height

\* C8 witness: an eight-value string whose first point is not the top-left
\* corner, with a negative and a two-digit coordinate, has been parsed.
C8_Witness ==
    /\ boxResult # None
    /\ boxInput.type = "str" /\ boxInput.form = "eight"
    /\ boxInput.of[1] > boxInput.of[3] /\ boxInput.of[2] > boxInput.of[6]
    /\ boxInput.of[3] < 0 /\ boxInput.of[1] >= 10
    /\ boxResult.kind = "returned" /\ boxResult.box.width > 0

ZeroBox == BoundingBox(0, 0, 0, 0)

\* The values C9 speaks of: a string that is no well-formed 4- or 8-integer
\* list, JSON null, or another non-string value.
C9_Malformed ==
    \/ boxInput.type \in {"null", "num"}
    \/ boxInput.type = "str" /\ boxInput.form = "malformed"

\* C9: every malformed boundingBox field value parses to the zero box without
\* raising, and the conversion continues.
C9_NeverFails ==
    (boxResult # None /\ C9_Malformed) =>
        /\ boxResult = Returned(ZeroBox)
        /\ boxConv = "continues"

\* The part of C9 that the code does satisfy: malformed strings.
C9_StringsDegrade ==
    (boxResult # None /\ boxInput.type = "str" /\ boxInput.form = "malformed") =>
        /\ boxResult = Returned(ZeroBox)
        /\ boxConv = "continues"

\* C10: every BoundingBox produced by a construction path has width >= 0 and
\* height >= 0.
C10_NonNegative ==
    (boxResult # None /\ boxResult.kind = "returned") =>
        /\ boxResult.box.width >= 0
        /\ boxResult.box.height >= 0

\* The paths on which C10 does hold: the eight-value form and the flat-box
\* polygon (both take max - min).
C10_MinMaxPaths ==
    (boxResult # None /\ boxResult.kind = "returned"
        /\ (boxInput.type = "poly"
              \/ (boxInput.type = "str" /\ boxInput.form = "eight"))) =>
        /\ boxResult.box.width >= 0
        /\ boxResult.box.height >= 0

(***************************************************************************)
(* Properties of format detection (specification SpecDetect)               *)
(***************************************************************************)
Dispatched == convCall = "convert_json_to_text"

IsCloudShape(v) == v.t = "dict" /\ "Result" \in v.keys
IsPdfShape(v) ==
    /\ v.t = "list" /\ v.items # <<>>
    /\ Head(v.items).t = "dict"
    /\ \A k \in {"width", "height", "blocks"} : k \in Head(v.items).keys
IsFlatShape(v) == v.t = "list" /\ ~IsPdfShape(v)
IsUnrecognized(v) == ~IsCloudShape(v) /\ v.t # "list"

\* C6: detection is total and deterministic: a dict with "Result" goes to the
\* cloud adapter, a non-empty list whose first element is a dict with width,
\* height and blocks to the PDF-block adapter, every other list (the empty one
\* included) to the flat-box adapter, and every other value fails.
C6_Detection ==
    Dispatched =>
        /\ IsCloudShape(jsonIn) => convResult = Delegated("youdao")
        /\ IsPdfShape(jsonIn) => convResult = Delegated("pymupdf")
        /\ IsFlatShape(jsonIn) => convResult = Delegated("rapidocr")
        /\ IsUnrecognized(jsonIn) => convResult.kind \in {"raised", "failure_string"}
        /\ convResult # None

\* C6 witness: a list whose first element has blocks and width but no height
\* went to the flat-box adapter.
C6_Witness ==
    /\ Dispatched
    /\ jsonIn.t = "list" /\ jsonIn.items # <<>>
    /\ Head(jsonIn.items).t = "dict"
    /\ Head(jsonIn.items).keys = {"width", "blocks"}
    /\ convResult = Delegated("rapidocr")

\* C7 as stated: an unrecognized value makes convert_json_to_text return the
\* failure string; it does not raise to the caller.
C7_ReturnsFailureString ==
    (Dispatched /\ IsUnrecognized(jsonIn)) => convResult = FailureString

\* C7 as amended: an unrecognized value makes convert_json_to_text raise
\* ValueError to the caller (nothing is returned, neither a failure string nor
\* layout text); the failure string is what an adapter returns when it is
\* called directly with a value of the wrong shape.
C7_RaisesValueError ==
    /\ (Dispatched /\ IsUnrecognized(jsonIn)) => convResult = Raised("ValueError")
    /\ (convCall = "convert_youdao_json_to_text" /\ ~IsCloudShape(jsonIn)) =>
           convResult = FailureString
    /\ (convCall \in {"convert_rapidocr_json_to_text", "convert_pymupdf_json_to_text"}
           /\ jsonIn.t # "list") => convResult = FailureString

\* C7 witness: a dict without "Result" was given to convert_json_to_text.
C7_Witness ==
    /\ Dispatched
    /\ jsonIn.t = "dict" /\ "Result" \notin jsonIn.keys /\ "regions" \in jsonIn.keys
    /\ convResult = Raised("ValueError")

(***************************************************************************)
(* Properties of the filter chains (specification SpecFilter)              *)
(***************************************************************************)
Converted == filtOut # None

NoFalse(chain, i) == \A k \in 1..Len(chain) : chain[k][i] # "F"
FirstFalse(chain, i) ==
    IF NoFalse(chain, i) THEN Len(chain)
    ELSE CHOOSE k \in 1..Len(chain) :
             chain[k][i] = "F" /\ \A j \in 1..(k - 1) : chain[j][i] # "F"

\* C4: the box-level chain is conjunctive: a fragment is in the output exactly
\* when no predicate of the chain returns false for it, whatever the other
\* verdicts and the order of the chain; no predicate after the first false is
\* evaluated; an empty chain (also one emptied again by boxFilter() or
\* rowBoxFilter()) keeps every fragment and every row.
C4_Conjunctive ==
    Converted =>
        /\ \A i \in Items :
              /\ (i \in Range(filtOut.fragments)) <=> NoFalse(box_filters, i)
              /\ filtOut.boxCalls[i] =
                     [k \in 1..FirstFalse(box_filters, i) |-> k]
              /\ (\E k \in 1..Len(box_filters) : box_filters[k][i] = "F")
                     => i \notin Range(filtOut.lines)
        /\ box_filters = <<>> => filtOut.fragments = [i \in Items |-> i]
        /\ row_filters = <<>> => filtOut.lines = filtOut.fragments

\* C4 witness: a two-predicate chain whose second predicate alone rejects
\* item 1 and which accepts item 2 has been applied.
C4_Witness ==
    /\ Converted
    /\ Len(box_filters) = 2
    /\ box_filters[1][1] = "T" /\ box_filters[2][1] = "F"
    /\ box_filters[1][2] = "T" /\ box_filters[2][2] = "T"
    /\ filtOut.lines = <<2>>

\* The empty chain after a reset: filters were installed, then removed, and
\* the conversion kept everything.
C4_ResetReached ==
    /\ Converted /\ hadFilters
    /\ box_filters = <<>> /\ row_filters = <<>>
    /\ filtOut.lines = [i \in Items |-> i]

OnlyRaises(chain, i) == \A k \in 1..Len(chain) : chain[k][i] = "X"

\* C5: predicates fail open, at both levels: the conversion always completes;
\* after a predicate that raises the next predicate of the chain is still
\* evaluated; an item is retained exactly when none of the predicates that do
\* not raise returns false, so an item on which predicates only raise or
\* return true is never dropped.
C5_FailOpen ==
    Converted =>
        /\ filtOut.kind = "lines"
        /\ \A i \in Items :
              /\ \A k \in 1..(Len(box_filters) - 1) :
                    (box_filters[k][i] = "X" /\ k \in Range(filtOut.boxCalls[i]))
                        => (k + 1) \in Range(filtOut.boxCalls[i])
              /\ \A k \in 1..(Len(row_filters) - 1) :
                    (row_filters[k][i] = "X" /\ k \in Range(filtOut.rowCalls[i]))
                        => (k + 1) \in Range(filtOut.rowCalls[i])
              /\ (i \in Range(filtOut.lines)) <=>
                    /\ \A k \in 1..Len(box_filters) :
                          box_filters[k][i] # "X" => box_filters[k][i] = "T"
                    /\ \A k \in 1..Len(row_filters) :
                          row_filters[k][i] # "X" => row_filters[k][i] = "T"

\* C5 witness: item 1 went through a box-level predicate that raises followed
\* by one that returns true and was kept, while item 2 went through a
\* row-level predicate that raises and was kept too.
C5_Witness ==
    /\ Converted
    /\ Len(box_filters) = 1 /\ Len(row_filters) = 1
    /\ box_filters[1][1] = "X" /\ row_filters[1][1] = "T"
    /\ box_filters[1][2] = "T" /\ row_filters[1][2] = "X"
    /\ filtOut.lines = <<1, 2>>

(***************************************************************************)
(* Properties of the row clustering (specification SpecCluster)            *)
(***************************************************************************)
Grouped == groups # None

RowOf(id) ==
    CHOOSE r \in 1..Len(groups.rows) :
        \E j \in 1..Len(groups.rows[r]) : groups.rows[r][j].id = id
SameRow(f, g) == RowOf(f.id) = RowOf(g.id)

\* The centers of f and g differ by more than ratio * line_spacing
\* (twentieths of a pixel on both sides).
FarApart(f, g) ==
    10 * Abs(y_mid(f) - y_mid(g)) > same_line_threshold_ratio * line_spacing

\* ... by more than max(1, ratio * line_spacing).
BeyondThreshold(f, g) ==
    10 * Abs(y_mid(f) - y_mid(g)) > Threshold(line_spacing, same_line_threshold_ratio)

\* No fragment has its center strictly between those of f and g.
NothingBetween(f, g) ==
    \A e \in Range(fragments) :
        ~(/\ Min(y_mid(f), y_mid(g)) < y_mid(e)
          /\ y_mid(e) < Max(y_mid(f), y_mid(g)))

\* C1 as stated: two fragments whose centers differ by more than
\* ratio * line_spacing are in different Rows, also with fragments in between.
C1_FarApartSeparated ==
    Grouped =>
        \A f, g \in Range(fragments) : FarApart(f, g) => ~SameRow(f, g)

\* The members of a row in center order, and the fragments of a row whose
\* center is below that of f.
RowByCenter(r) == SortByYMid(groups.rows[r])

\* C1 as amended: two fragments whose centers differ by more than
\* max(1, ratio * line_spacing) are in different Rows when no other fragment
\* has its center strictly between theirs; in general a fragment is in the Row
\* of the fragments before it exactly when its center is within that threshold
\* of the mean center of those fragments: every member of a Row is within the
\* threshold of the mean of the members before it, and the first member of the
\* next Row is beyond the threshold of the mean of the whole Row.
C1_RunningMeanSeparated ==
    Grouped =>
        /\ \A f, g \in Range(fragments) :
              (BeyondThreshold(f, g) /\ NothingBetween(f, g)) => ~SameRow(f, g)
        /\ \A r \in 1..Len(groups.rows) :
              /\ \A k \in 2..Len(groups.rows[r]) :
                    LET before == SubSeq(RowByCenter(r), 1, k - 1)
                    IN  10 * Abs(Len(before) * y_mid(RowByCenter(r)[k]) - SumYMid(before))
                            <= Len(before) * Threshold(line_spacing,
                                                       same_line_threshold_ratio)
              /\ r < Len(groups.rows) =>
                    10 * Abs(Len(groups.rows[r]) * y_mid(RowByCenter(r + 1)[1])
                                - SumYMid(groups.rows[r]))
                        > Len(groups.rows[r]) * Threshold(line_spacing,
                                                          same_line_threshold_ratio)

\* C1 witness: three fragments were grouped; the outer two are beyond the
\* threshold of each other and share a Row with the one between them, while
\* no two fragments with nothing between them are beyond the threshold.
C1_Witness ==
    /\ Grouped
    /\ Len(fragments) = 3
    /\ Len(groups.rows) = 1
    /\ \E f, g \in Range(fragments) : BeyondThreshold(f, g) /\ SameRow(f, g)

\* C1 second case: two fragments beyond the threshold with nothing between
\* them were put in different Rows.
C1_SplitReached ==
    /\ Grouped
    /\ \E f, g \in Range(fragments) :
          BeyondThreshold(f, g) /\ NothingBetween(f, g) /\ ~SameRow(f, g)

(***************************************************************************)
(* Properties of the layout engine (specification SpecLayout)              *)
(***************************************************************************)
\* Positions of text_lines that render a Row, and pairs of them with no other
\* Row line in between: consecutively emitted rows.
RowLine(p) == p \in DOMAIN origins /\ origins[p] > 0
ConsecutiveRows(p, q) ==
    /\ RowLine(p) /\ RowLine(q) /\ p < q
    /\ \A m \in (p + 1)..(q - 1) : ~RowLine(m)

\* The gap of the claim between Rows i and j of grouped, in pixels: minimum
\* top y of the later row minus maximum bottom y of the earlier one.
RowTop(k) == SetMin({f.y : f \in Range(grouped[k])})
RowBottom(k) == SetMax({f.y + f.height : f \in Range(grouped[k])})
RowGap(i, j) == RowTop(j) - RowBottom(i)

\* round(gap / line_spacing) and floor(gap / line_spacing), 0 for a zero or
\* negative gap; line_spacing is in half pixels.
RoundedBlanks(i, j) ==
    IF RowGap(i, j) <= 0 THEN 0 ELSE RoundHalfEven(2 * RowGap(i, j), line_spacing)
FloorBlanks(i, j) ==
    IF RowGap(i, j) <= 0 THEN 0 ELSE (2 * RowGap(i, j)) \div line_spacing

\* C2 as stated: between every two consecutively emitted rows there are
\* exactly round(gap / line_spacing) blank lines.
C2_RoundedBlankLines ==
    \A p \in DOMAIN origins : \A q \in DOMAIN origins :
        ConsecutiveRows(p, q) => q - p - 1 = RoundedBlanks(origins[p], origins[q])

\* The rows after Row i up to Row j that passed the row-level chain: Row j
\* and the rows before it that were dropped for having no text left.
PassedRows(i, j) ==
    {k \in (i + 1)..j : _apply_row_box_filters(row_filters, RowIds(grouped[k])).keep}

RECURSIVE FloorBlanksSum(_, _)
FloorBlanksSum(i, S) ==
    IF S = {} THEN 0
    ELSE LET k == CHOOSE k \in S : TRUE
         IN  FloorBlanks(i, k) + FloorBlanksSum(i, S \ {k})

\* C2 (amended): every row that passes the row-level chain after an emitted
\* row is preceded by floor(gap / line_spacing) blank lines, the gap measured
\* from the last emitted row; the blank lines between two consecutively
\* emitted rows are those of the later row plus those of the rows in between
\* that were dropped for having only whitespace text.
C2_TruncatedBlankLines ==
    \A p \in DOMAIN origins : \A q \in DOMAIN origins :
        ConsecutiveRows(p, q) =>
            q - p - 1 = FloorBlanksSum(origins[p], PassedRows(origins[p], origins[q]))

\* Two rows are emitted with at least one blank line between them, across a
\* gap that is not a whole number of line pitches.
C2_Witness ==
    /\ pc = "done"
    /\ \E p \in DOMAIN origins : \E q \in DOMAIN origins :
           /\ ConsecutiveRows(p, q)
           /\ q - p - 1 >= 1
           /\ (2 * RowGap(origins[p], origins[q])) % line_spacing # 0

\* A whitespace-only row between two emitted rows has added blank lines.
C2_WhitespaceRowReached ==
    /\ pc = "done"
    /\ \E p \in DOMAIN origins : \E q \in DOMAIN origins :
           /\ ConsecutiveRows(p, q)
           /\ q - p - 1 > FloorBlanks(origins[p], origins[q])

\* C3: no conversion returns text lines while the converter holds a
\* non-positive char_height.
C3_NonPositiveNeverCompletes ==
    ~(/\ pc = "done"
      /\ outcome.kind = "text"
      /\ outcome.lines # <<>>
      /\ char_height <= 0)

(***************************************************************************)
(* Properties of the flat-box adapter (specification SpecFlat)             *)
(***************************************************************************)
ClaimedForms == {"well", "lacks_key", "bad_polygon", "empty_text"}
WellFormedTexts ==
    {FlatTexts[i] : i \in {j \in DOMAIN ocr_items : ocr_items[j].form = "well"}}
OutputChars == UNION {Range(outcome.lines[k]) : k \in DOMAIN outcome.lines} \ {" "}

\* C11: a list whose items are well formed, lack a key, have a polygon that
\* is not four pairs or have an empty text converts to text lines (no
\* exception, no failure string) that hold the texts of exactly the
\* well-formed items.
C11_MalformedOmitted ==
    (pc = "done" /\ \A i \in DOMAIN ocr_items : ocr_items[i].form \in ClaimedForms)
        => /\ outcome.kind = "text"
           /\ OutputChars = WellFormedTexts

(***************************************************************************)
(* Further properties of the row clustering (specification SpecCluster)    *)
(***************************************************************************)
Coincident == \A i \in DOMAIN fragments : y_mid(fragments[i]) = y_mid(fragments[1])

\* Ascending x, fragments of equal x in the order of the input list.
InReadingOrder(row) ==
    \A j \in DOMAIN row : \A k \in DOMAIN row :
        j < k => \/ row[j].x < row[k].x
                 \/ row[j].x = row[k].x /\ row[j].id < row[k].id

\* C12: fragments that all have the same vertical center come back as
\* exactly one Row that holds every one of them once, in ascending x, those
\* of equal x in input order.
C12_CoincidentOneRow ==
    (Grouped /\ fragments # <<>> /\ Coincident)
        => /\ Len(groups.rows) = 1
           /\ Len(groups.rows[1]) = Len(fragments)
           /\ Range(groups.rows[1]) = Range(fragments)
           /\ InReadingOrder(groups.rows[1])

\* Three coincident fragments were grouped, given out of x order and two of
\* them with the same x.
C12_Witness ==
    /\ Grouped /\ Coincident
    /\ Len(fragments) >= 3
    /\ fragments[1].x > fragments[2].x
    /\ fragments[1].x = fragments[3].x

(***************************************************************************)
(* Properties of the row joining (specification SpecJoin)                  *)
(***************************************************************************)
Joined == joinOut # None

\* n is round(num / den), halves going to the even neighbour.
IsRounded(n, num, den) ==
    \/ 2 * Abs(num - n * den) < den
    \/ 2 * Abs(num - n * den) = den /\ n % 2 = 0

\* The pixel gap before fragment k of the row, and the number of spaces the
\* claim gives it.
FragGap(row, k) == row[k].x - (row[k - 1].x + row[k - 1].width)
ClaimedSpaces(row, k, ch) ==
    CHOOSE n \in 0..(2 * Max(0, FragGap(row, k))) :
        IsRounded(n, 2 * Max(0, FragGap(row, k)), ch)

\* The texts of the row from fragment k on, each after its claimed spaces.
RECURSIVE ClaimedJoin(_, _, _)
ClaimedJoin(row, k, ch) ==
    IF k > Len(row) THEN <<>>
    ELSE (IF k = 1 THEN <<>> ELSE Spaces(ClaimedSpaces(row, k, ch)))
         \o row[k].text \o ClaimedJoin(row, k + 1, ch)

\* C13: the joined string is the texts of the row in order, with
\* round(max(0, g) / char_height * 2) spaces between adjacent ones, followed by
\* nothing but the trailing fill.
C13_SpacesBetween ==
    Joined =>
        LET expected == ClaimedJoin(joinIn.row, 1, joinIn.char_height)
            out == joinOut.text
        IN  /\ Len(out) >= Len(expected)
            /\ SubSeq(out, 1, Len(expected)) = expected
            /\ \A p \in (Len(expected) + 1)..Len(out) : out[p] = " "

\* A row was joined with char_height 50 across a 100 px gap (4 spaces).
C13_Witness ==
    /\ Joined
    /\ joinIn.char_height = 50
    /\ \E k \in 2..Len(joinIn.row) :
           /\ FragGap(joinIn.row, k) = 100
           /\ joinIn.row[k - 1].text # <<>> /\ joinIn.row[k].text # <<>>
           /\ \E p \in 1..(Len(joinOut.text) - 5) :
                  SubSeq(joinOut.text, p, p + 5)
                      = joinIn.row[k - 1].text \o Spaces(4) \o joinIn.row[k].text

\* A row was joined across a gap of a quarter of char_height (half a space,
\* rounded down to none).
C13_HalfDownReached ==
    /\ Joined
    /\ \E k \in 2..Len(joinIn.row) : 4 * FragGap(joinIn.row, k) = joinIn.char_height

\* A row was joined across a gap of three quarters of char_height (one space
\* and a half, rounded up to two).
C13_HalfUpReached ==
    /\ Joined
    /\ \E k \in 2..Len(joinIn.row) : 4 * FragGap(joinIn.row, k) = 3 * joinIn.char_height
    /\ \E k \in 2..Len(joinIn.row) : FragGap(joinIn.row, k) < 0

(***************************************************************************)
(* Properties of the engine on one row (specification SpecRow)             *)
(***************************************************************************)
\* The line of the document that has the text t.
LineOf(t) ==
    LET r == CHOOSE r \in DOMAIN regions : regions[r].lines[1].text = <<t>>
    IN  regions[r].lines[1].boundingBox
StartsRightOf(b, a, gap) == b.x = a.x + a.width + gap

\* C14: with char_height 50, B starting 50 px right of A's right edge and C
\* 50 px right of B's, the conversion returns the single line "A  B  C": two
\* spaces in each gap, no indentation, no trailing fill.
C14_ThreeFragments ==
    (/\ pc = "done"
     /\ char_height = 50
     /\ StartsRightOf(LineOf("B"), LineOf("A"), 50)
     /\ StartsRightOf(LineOf("C"), LineOf("B"), 50))
        => outcome = TextLines(<< <<"A", " ", " ", "B", " ", " ", "C">> >>)

\* The scenario was converted from a document that lists C first.
C14_Witness ==
    /\ pc = "done"
    /\ char_height = 50
    /\ StartsRightOf(LineOf("B"), LineOf("A"), 50)
    /\ StartsRightOf(LineOf("C"), LineOf("B"), 50)
    /\ regions[1].lines[1].text = <<"C">>
    /\ LineOf("A").width > 0
    /\ outcome.kind = "text" /\ Len(outcome.lines) = 1

(***************************************************************************)
(* Properties of the rejection log (specification SpecFilter)              *)
(***************************************************************************)
\* What happened to line i of the document: rejected by the box-level chain,
\* else rejected as a row by the row-level chain, else retained.
BoxRejected(i) == ~NoFalse(box_filters, i)
RowRejected(i) == NoFalse(box_filters, i) /\ ~NoFalse(row_filters, i)

\* The log lines about line i: every line of the document has its own y.
LogLinesOf(i) == {e \in DOMAIN filtOut.log : filtOut.log[e].y = box_data(i).y}

C15_SecondPredicateReached ==
    /\ Converted
    /\ Len(box_filters) = 2
    /\ box_filters[1][1] = "X" /\ box_filters[2][1] = "F"
    /\ NoFalse(box_filters, 2)
    /\ Len(filtOut.log) = 1

(***************************************************************************)
(* Properties of converter reuse                                           *)
(***************************************************************************)
PageConverted == page_doc # None

\* What a new converter with the same chains and layout parameters does on
\* the document of the last conversion.
FreshConversion ==
    convert(page_doc.dialect, page_doc.doc, box_filters, 0, 0,
            char_height, line_height_multiplier)

\* C16: whatever the converter has converted before, a conversion returns
\* the text, and rejects the lines, that a new converter with the same
\* configuration returns and rejects for the same document.
C16_SameAsFresh ==
    PageConverted =>
        /\ page_out.text = FreshConversion.text
        /\ page_out.rejected = FreshConversion.rejected

\* In the dialects whose adapter calls no predicate the fields left by
\* earlier conversions are overwritten before any predicate reads them.
ReuseSafeOutsideFlat ==
    (PageConverted /\ page_doc.dialect # "rapidocr") =>
        /\ page_out.text = FreshConversion.text
        /\ page_out.rejected = FreshConversion.rejected

\* The union extent of the boxes of the document of the last conversion.
DocumentExtent ==
    LET dims == _update_page_dimensions(PageRegions(page_doc.doc), 0, 0)
    IN  page_info(dims[1], dims[2])

\* C20: in every dialect, each call of a box-level predicate during a
\* conversion is handed the union extent of the boxes of the document being
\* converted (so all calls of one conversion are handed the same page_info).
C20_ExtentBeforeFiltering ==
    PageConverted =>
        \A c \in DOMAIN page_calls : page_calls[c].page_info = DocumentExtent

\* The same outside the flat-box dialect.
ExtentBeforeFilteringOutsideFlat ==
    (PageConverted /\ page_doc.dialect # "rapidocr") =>
        \A c \in DOMAIN page_calls : page_calls[c].page_info = DocumentExtent

\* A flat-box conversion on a new converter called a predicate with a page
\* of no size.
FlatZeroPageReached ==
    /\ PageConverted /\ page_doc.dialect = "rapidocr"
    /\ \E c \in DOMAIN page_calls : page_calls[c].page_info = page_info(0, 0)

\* The stepwise layout engine and convert_regions_to_text_lines as a
\* function return the same.
StepwiseAgrees ==
    pc = "done" =>
        outcome = convert_regions_to_text_lines(regions, box_filters, row_filters,
                      char_height, line_height_multiplier, page_width)

(***************************************************************************)
(* Properties of the margin detector                                       *)
(***************************************************************************)
Detected == page_margin # None

\* C17: on a page without ink every edge is its initial candidate:
\* left = int(W*(1-rw)/2), right = int(W*(1+rw)/2), top = int(H*(1-rh)/2),
\* bottom = int(H*(1+rh)/2), whatever the page size and the window size.
C17_BlankPageKeepsCandidates ==
    (Detected /\ image.ink.kind = "blank") =>
        /\ page_margin.left = initial_low(image.width, detector.body_ratio_width)
        /\ page_margin.right = initial_high(image.width, detector.body_ratio_width)
        /\ page_margin.top = initial_low(image.height, detector.body_ratio_height)
        /\ page_margin.bottom = initial_high(image.height, detector.body_ratio_height)

\* A blank page was scanned over at least three window positions on the
\* left, and the edges were returned.
C17_Witness ==
    /\ Detected /\ image.ink.kind = "blank"
    /\ image.width = 20 /\ image.height = 20
    /\ detector.window_size = 2 /\ detector.body_ratio_width = 50
    /\ page_margin.left = 5 /\ page_margin.right = 15

DefaultDetector ==
    detector = Detector(DefaultRatio, DefaultRatio, DefaultWindow, DefaultThreshold)

Within(a, b, d) == Abs(a - b) <= d

\* C18: with the default parameters, on a page with the centered rectangle
\* each detected edge is within one window width of the rectangle's edge and
\* the confidence is above 0.5.
C18_EdgesAtRectangle ==
    (Detected /\ DefaultDetector /\ image.ink.kind = "rectangle") =>
        /\ Within(page_margin.left, image.ink.x0, detector.window_size)
        /\ Within(page_margin.right, image.ink.x1, detector.window_size)
        /\ Within(page_margin.top, image.ink.y0, detector.window_size)
        /\ Within(page_margin.bottom, image.ink.y1, detector.window_size)
        /\ FracLess(<<1, 2>>, page_margin.confidence)

\* With the default parameters the scans see no ink of the centered
\* rectangle: the edges are the initial candidates.
RectangleKeepsCandidates ==
    (Detected /\ DefaultDetector /\ image.ink.kind = "rectangle") =>
        /\ page_margin.left = initial_low(image.width, detector.body_ratio_width)
        /\ page_margin.right = initial_high(image.width, detector.body_ratio_width)
        /\ page_margin.top = initial_low(image.height, detector.body_ratio_height)
        /\ page_margin.bottom = initial_high(image.height, detector.body_ratio_height)

\* A scan found the edge of a rectangle: an edge other than the candidate.
PeakReached ==
    /\ Detected /\ image.ink.kind = "rectangle"
    /\ page_margin.top # initial_low(image.height, detector.body_ratio_height)

(***************************************************************************)
(* Properties of the rejection log                                         *)
(***************************************************************************)
\* Reading a file back as utf-8-sig: a mark at the very start is dropped.
Decode(content) ==
    IF content # <<>> /\ content[1] = BOM THEN Tail(content) ELSE content

\* The complete lines of a text and what follows the last newline.
RECURSIVE SplitLines(_, _)
SplitLines(text, current) ==
    IF text = <<>> THEN [lines |-> <<>>, rest |-> current]
    ELSE IF Head(text) = NL
    THEN LET r == SplitLines(Tail(text), <<>>)
         IN  [lines |-> <<current>> \o r.lines, rest |-> r.rest]
    ELSE SplitLines(Tail(text), Append(current, Head(text)))

LogLines(p) == SplitLines(Decode(sinks[p]), <<>>)

\* line is an entry written to file p: that of the earlier run, or one of
\* those a conversion whose log file is p has logged.
EntryOf(line, p) ==
    \/ line = LogMsg(0, 1)
    \/ \E c \in Conversions :
           /\ writers[c].log_file = p
           /\ \E k \in 1..writers[c].done : line = LogMsg(c, k)

\* C19: however the conversions interleave, every line of every log file is
\* one whole entry of one conversion writing to that file (so no conversion
\* writes to the file of another), nothing follows the last line, and
\* earlier entries stay as they were.
C19_WholeEntries ==
    \A p \in Paths :
        /\ LogLines(p).rest = <<>>
        /\ \A i \in DOMAIN LogLines(p).lines : EntryOf(LogLines(p).lines[i], p)

\* Every step only appends to the log files.
AppendOnly ==
    [][\A p \in Paths :
          /\ Len(sinks'[p]) >= Len(sinks[p])
          /\ SubSeq(sinks'[p], 1, Len(sinks[p])) = sinks[p]]_vars

\* Apart from byte order marks every line is one whole entry of one
\* conversion writing to that file.
WholeEntriesButMarks ==
    \A p \in Paths :
        LET r == SplitLines(SelectSeq(sinks[p], LAMBDA t : t # BOM), <<>>)
        IN  /\ r.rest = <<>>
            /\ \A i \in DOMAIN r.lines : EntryOf(r.lines[i], p)

\* When the conversions write to different files, or one of them has
\* nothing to log, the claim of C19 holds.
NoSharedSink ==
    \/ \E c \in Conversions : writers[c].todo + writers[c].done = 0
    \/ \A c, d \in Conversions : c # d => writers[c].log_file # writers[d].log_file
WholeEntriesWhenNotShared ==
    NoSharedSink => C19_WholeEntries

\* Two conversions opened the same empty file before either wrote: a mark
\* stands in the middle of the file.
MarkInsideReached ==
    \E p \in Paths : \E i \in 2..Len(sinks[p]) : sinks[p][i] = BOM

(***************************************************************************)
(* Properties of the row loop: previous-row tracking (SpecLayout)          *)
(***************************************************************************)
\* The position of the last text line before position p that renders a Row
\* (0 when there is none), and the last such position of all.
LastRowLineBefore(p) ==
    SetMax({0} \cup {q \in 1..(p - 1) : RowLine(q)})
LastRowLine == LastRowLineBefore(Len(origins) + 1)

\* Every blank line stands before the line of an emitted row: no dropped row
\* has left blank lines of its own at the end of the text lines.
NoStrayBlankLines ==
    \A m \in DOMAIN origins : origins[m] = 0 => \E p \in DOMAIN origins : p > m /\ RowLine(p)

\* The blank lines before every emitted row are those of the gap measured
\* from the last emitted row, none before the first one.
BlanksMeasuredFromLastEmitted ==
    \A p \in DOMAIN origins :
        RowLine(p) =>
            LET q == LastRowLineBefore(p)
            IN  p - q - 1 =
                    IF q = 0 THEN 0
                    ELSE _compute_blank_lines_between(grouped[origins[q]],
                                                      grouped[origins[p]], line_spacing)

\* prev_row is the last row that emitted a line.
PrevRowIsLastEmitted ==
    prev_row = (IF LastRowLine = 0 THEN 0 ELSE origins[LastRowLine])

\* C21: at every point of the row loop prev_row is the most recent row that
\* emitted a line, the blank lines before each emitted row are those of the
\* gap from the last emitted row, and a dropped row (by the row-level chain
\* or for having only whitespace) has emitted nothing, blank lines included.
C21_DroppedRowsEmitNothing ==
    /\ PrevRowIsLastEmitted
    /\ BlanksMeasuredFromLastEmitted
    /\ NoStrayBlankLines

\* Row k of grouped passes the row-level chain and its joined text is all
\* whitespace (line 462).
WhitespaceRow(k) ==
    /\ char_height > 0
    /\ _apply_row_box_filters(row_filters, RowIds(grouped[k])).keep
    /\ LStrip(_join_fragments_with_spacing(
                  grouped[k], char_height,
                  _determine_text_area_bounds(fragments).right)) = <<>>

\* The rows the loop has been through.
RowsDone == IF pc = "rows" THEN 1..(row_index - 1) ELSE DOMAIN grouped

\* As long as no whitespace-only row has been met, C21 holds: rows dropped by
\* the row-level chain emit nothing and leave prev_row alone.
FilterDroppedRowsEmitNothing ==
    (\A k \in RowsDone : ~WhitespaceRow(k)) => C21_DroppedRowsEmitNothing

\* A row dropped by the row-level chain lies between two emitted rows.
FilterDropBetweenEmittedReached ==
    /\ pc = "done"
    /\ \E p \in DOMAIN origins : \E q \in DOMAIN origins :
           /\ ConsecutiveRows(p, q)
           /\ \E k \in (origins[p] + 1)..(origins[q] - 1) :
                  ~_apply_row_box_filters(row_filters, RowIds(grouped[k])).keep

\* A whitespace-only row after an emitted row has left blank lines.
WhitespaceRowBlanksReached ==
    /\ pc = "done"
    /\ \E k \in DOMAIN grouped : WhitespaceRow(k)
    /\ ~(BlanksMeasuredFromLastEmitted /\ NoStrayBlankLines)

(***************************************************************************)
(* Properties of the scans of the margin detector (SpecMargin)             *)
(***************************************************************************)
\* The four scans of a detection: the edge, its initial candidate and the
\* positions kept.
InitialPos(direction) ==
    IF direction = "left" THEN initial_low(image.width, detector.body_ratio_width)
    ELSE IF direction = "right" THEN initial_high(image.width, detector.body_ratio_width)
    ELSE IF direction = "top" THEN initial_low(image.height, detector.body_ratio_height)
    ELSE initial_high(image.height, detector.body_ratio_height)
Scanned(direction) ==
    scan_positions(image, InitialPos(direction), direction, detector)

\* The positions from the candidate up to the border of a side of size
\* pixels that are at least window_size from both borders.
TowardBorder(initial_pos, size) ==
    {pos \in initial_pos..(size - 1) :
        pos >= detector.window_size /\ pos <= size - detector.window_size}

\* The right-edge scan keeps the positions from its candidate to the right
\* border, bounded by the image width.
RightScanBoundedByWidth ==
    Detected => Range(Scanned("right")) = TowardBorder(InitialPos("right"), image.width)

\* C22: the bottom-edge scan keeps the positions from its candidate to the
\* bottom border, bounded by the image height, whatever the aspect ratio.
C22_BottomScanBoundedByHeight ==
    Detected => Range(Scanned("bottom")) = TowardBorder(InitialPos("bottom"), image.height)

\* On a square page the bottom-edge scan is bounded as C22 says.
BottomScanOnSquarePage ==
    (Detected /\ image.width = image.height) =>
        Range(Scanned("bottom")) = TowardBorder(InitialPos("bottom"), image.height)

\* On a page at least as wide as high the bottom-edge scan misses nothing.
BottomScanOnLandscapePage ==
    (Detected /\ image.width >= image.height) =>
        TowardBorder(InitialPos("bottom"), image.height) \subseteq Range(Scanned("bottom"))

\* A portrait page whose bottom candidate lies beyond its width: positions
\* toward the bottom border exist and none is scanned.
PortraitBottomUnscannedReached ==
    /\ Detected
    /\ image.height > image.width
    /\ detector = Detector(DefaultRatio, DefaultRatio, DefaultWindow, DefaultThreshold)
    /\ Len(Scanned("bottom")) = 0
    /\ Cardinality(TowardBorder(InitialPos("bottom"), image.height)) >= 3

(***************************************************************************)
(* Properties of filter_page_number in a conversion (SpecPage)             *)
(***************************************************************************)
\* The line of the document of the last conversion whose text is t (the
\* lines of a document have different texts).
PageLineOf(t) ==
    LET g == page_doc.doc
        k == PageKinds[g[CHOOSE i \in DOMAIN g : PageKinds[g[i]].text = t]]
    IN  [text |-> k.text, x |-> k.x, y |-> k.y, width |-> k.w, height |-> k.h]

\* The text has digits only, spaces not counted.
DigitsOnly(text) == \A i \in DOMAIN text : IsDigit(text[i]) \/ IsSpace(text[i])

\* The line lies at or below 90% of the height of the page, the page being
\* the union extent of the boxes of the document.
LowOnPage(line) == 10 * line.y >= 9 * DocumentExtent.page_height

\* The verdict of the c-th predicate call of the last conversion.
VerdictOfCall(c) ==
    CallFilter(page_calls[c].filter, PageLineOf(page_calls[c].text),
               page_calls[c].page_info)

\* C23: wherever a conversion calls filter_page_number on a line, in every
\* dialect, the line is rejected exactly when it lies at or below 90% of the
\* page height and has digits only; digits in the upper 90% are kept.
C23_PageNumberOnlyLowDigits ==
    PageConverted =>
        \A c \in DOMAIN page_calls :
            page_calls[c].filter = "filter_page_number" =>
                (VerdictOfCall(c) =
                    ~(LowOnPage(PageLineOf(page_calls[c].text))
                      /\ DigitsOnly(page_calls[c].text)))

\* The same outside the flat-box dialect.
PageNumberOnlyLowDigitsOutsideFlat ==
    (PageConverted /\ page_doc.dialect # "rapidocr") =>
        \A c \in DOMAIN page_calls :
            page_calls[c].filter = "filter_page_number" =>
                (VerdictOfCall(c) =
                    ~(LowOnPage(PageLineOf(page_calls[c].text))
                      /\ DigitsOnly(page_calls[c].text)))

\* A flat-box conversion rejected digits at the top of the page, and a
\* cloud-dialect conversion kept them while rejecting digits at the bottom.
TopDigitsRejectedReached ==
    /\ PageConverted /\ page_doc.dialect = "rapidocr"
    /\ <<"8">> \in page_out.rejected
    /\ ~LowOnPage(PageLineOf(<<"8">>))
TopDigitsKeptReached ==
    /\ PageConverted /\ page_doc.dialect = "youdao"
    /\ box_filters = <<"filter_page_number">>
    /\ page_out.rejected = {<<"7">>}
    /\ \E i \in DOMAIN page_doc.doc : PageKinds[page_doc.doc[i]].text = <<"8">>

(***************************************************************************)
(* Properties of _apply_row_box_filters on an empty row (SpecRowFilter)    *)
(***************************************************************************)
RowFiltered == filtOut # None /\ filtOut.kind = "row"
EmptyRowFiltered == RowFiltered /\ filtOut.row = <<>>

\* C24 as stated: a row without fragments is dropped and no predicate is
\* called, whatever the row-level chain, the empty chain included.
C24_EmptyRowAlwaysDropped ==
    EmptyRowFiltered => (~filtOut.run.keep /\ filtOut.run.calls = <<>>)

\* C24 (amended): on a row without fragments no predicate is called and
\* nothing is logged; the row is dropped when the row-level chain has at
\* least one predicate and kept when the chain is empty.
C24_EmptyRowDroppedByNonEmptyChain ==
    EmptyRowFiltered =>
        /\ filtOut.run.calls = <<>>
        /\ filtOut.run.log = <<>>
        /\ filtOut.run.keep = (row_filters = <<>>)

\* A row without fragments was dropped by a chain of two predicates that
\* return true on every item.
C24_Witness ==
    /\ EmptyRowFiltered
    /\ Len(row_filters) = 2
    /\ \A k \in DOMAIN row_filters : \A i \in Items : row_filters[k][i] = "T"
    /\ ~filtOut.run.keep

\* A row without fragments was kept by the empty chain.
EmptyRowKeptReached ==
    EmptyRowFiltered /\ row_filters = <<>> /\ filtOut.run.keep

(***************************************************************************)
(* Properties of the boundary selection (SpecMargin)                       *)
(***************************************************************************)
Edges == {"left", "right", "top", "bottom"}
EdgeOf(direction) ==
    IF direction = "left" THEN page_margin.left
    ELSE IF direction = "right" THEN page_margin.right
    ELSE IF direction = "top" THEN page_margin.top
    ELSE page_margin.bottom

\* The absolute density derivatives at the positions a scan kept (three
\* positions at least), the largest of them and the positions that have it.
AbsDerivatives(positions, direction) ==
    LET gradients == _calculate_gradients(
                         scan_densities(image, positions, direction, detector))
    IN  [i \in DOMAIN gradients |-> FracAbs(gradients[i])]
MaxDerivative(d) ==
    d[CHOOSE i \in DOMAIN d : \A j \in DOMAIN d : ~FracLess(d[i], d[j])]
PeakPositions(positions, d) ==
    LET largest == MaxDerivative(d)
    IN  {positions[i] : i \in {k \in DOMAIN d : d[k] = largest}}
GradientThreshold == Frac(detector.gradient_threshold, 100)

\* What C25 says of one edge: the positions its scan kept, its candidate and
\* the position returned.
Selected(direction, positions, initial_pos, edge) ==
    IF Len(positions) < 3 THEN edge = initial_pos
    ELSE LET d == AbsDerivatives(positions, direction)
             largest == MaxDerivative(d)
         IN  IF FracLess(GradientThreshold, largest)
             THEN edge \in PeakPositions(positions, d)
             ELSE IF largest = GradientThreshold /\ detector.gradient_threshold # 0
             THEN edge \in PeakPositions(positions, d) \cup {initial_pos}
             ELSE edge = initial_pos

\* C25: an edge whose scan kept fewer than three positions is its initial
\* candidate; otherwise it is a scanned position of maximal absolute
\* derivative when the maximum exceeds gradient_threshold, and its initial
\* candidate when the maximum is below the threshold or the two are 0.  A
\* maximum that is exactly a non-zero threshold is compared as doubles and
\* gives one or the other.
C25_BoundarySelection ==
    Detected =>
        \A direction \in Edges :
            Selected(direction, Scanned(direction), InitialPos(direction),
                     EdgeOf(direction))

\* The largest absolute derivative of the scan of an edge that kept three
\* positions at least.
LargestOf(direction) ==
    MaxDerivative(AbsDerivatives(Scanned(direction), direction))

\* An edge was moved to the peak of its scan, off its candidate.
C25_Witness ==
    /\ Detected
    /\ \E direction \in Edges :
           /\ Len(Scanned(direction)) >= 3
           /\ FracLess(GradientThreshold, LargestOf(direction))
           /\ EdgeOf(direction) # InitialPos(direction)

\* An edge stayed at its candidate: below a derivative that is not 0; at a
\* derivative of 0 with a threshold of 0; after a scan that kept one or two
\* positions.
BelowThresholdReached ==
    /\ Detected
    /\ \E direction \in Edges :
           /\ Len(Scanned(direction)) >= 3
           /\ FracLess(<<0, 1>>, LargestOf(direction))
           /\ FracLess(LargestOf(direction), GradientThreshold)
           /\ EdgeOf(direction) = InitialPos(direction)
AtThresholdReached ==
    /\ Detected
    /\ \E direction \in Edges :
           /\ Len(Scanned(direction)) >= 3
           /\ LargestOf(direction) = GradientThreshold
           /\ EdgeOf(direction) = InitialPos(direction)
ShortScanReached ==
    Detected /\ \E direction \in Edges : Len(Scanned(direction)) \in {1, 2}

InkInsideCandidate ==
    /\ image.ink.kind = "rectangle"
    /\ InitialPos("left") < image.ink.x0 /\ image.ink.x1 < InitialPos("right")
    /\ InitialPos("top") < image.ink.y0 /\ image.ink.y1 < InitialPos("bottom")

InkInsideCandidateReached ==
    /\ Detected /\ InkInsideCandidate
    /\ page_margin.left = InitialPos("left")
    /\ page_margin.right = InitialPos("right")
    /\ page_margin.top = InitialPos("top")
    /\ page_margin.bottom = InitialPos("bottom")

(***************************************************************************)
(* Row indentation                                                         *)
(***************************************************************************)
\* The lines of the horizontal regions that become fragments when no
\* box-level predicate is registered: those with a text.
HorizontalBoxes ==
    UNION {{regions[r].lines[k].boundingBox :
               k \in {j \in DOMAIN regions[r].lines : regions[r].lines[j].text # <<>>}} :
           r \in {q \in DOMAIN regions : regions[q].dir = "h"}}

\* The left and right edge of the text area.
TextAreaLeft == SetMin({b.x : b \in HorizontalBoxes})
TextAreaRight == SetMax({b.x + b.width : b \in HorizontalBoxes})

\* The number of spaces a line starts with and ends with.
LeadingSpaces(line) == Len(line) - Len(LStrip(line))
TrailingSpaces(line) == Len(line) - Len(RStrip(line))

\* The minimum x of the fragments of Row r.
RowLeftX(r) == SetMin({grouped[r][j].x : j \in DOMAIN grouped[r]})

\* The emitted row lines: the output lines that are neither blank lines of a
\* gap nor lines of vertical regions.
RowLines == {i \in DOMAIN text_lines : origins[i] > 0}

\* C26: every emitted row line starts with exactly
\* round((rowLeftX - textAreaLeft) / charHeight * 2) spaces, rowLeftX the
\* minimum x of the fragments of the Row and textAreaLeft the minimum x of
\* all fragments; the count is never negative.
C26_RowIndent ==
    \A i \in RowLines :
        /\ RowLeftX(origins[i]) - TextAreaLeft >= 0
        /\ LeadingSpaces(text_lines[i])
               = RoundHalfEven(2 * (RowLeftX(origins[i]) - TextAreaLeft), char_height)
        /\ LeadingSpaces(text_lines[i]) < Len(text_lines[i])

\* A row line that is indented by a rounded number of spaces: the Row starts
\* 4 px right of a text area that starts at x = 1, char_height is 3, and the
\* 2.67 spaces of the distance are emitted as 3.
C26_Witness ==
    /\ pc = "done"
    /\ char_height = 3
    /\ RowLines # {}
    /\ TextAreaLeft = 1
    /\ \E i \in RowLines :
           /\ RowLeftX(origins[i]) = 5
           /\ LeadingSpaces(text_lines[i]) = 3

\* A distance of 0.5 spaces (1 px at char_height 4) was emitted as none:
\* halves go to the even count.
IndentHalfDownReached ==
    /\ pc = "done"
    /\ char_height = 4
    /\ RowLines # {}
    /\ TextAreaLeft = 0
    /\ \E i \in RowLines :
           RowLeftX(origins[i]) = 1 /\ LeadingSpaces(text_lines[i]) = 0

\* A distance of 2.5 spaces (5 px at char_height 4) was emitted as 2.
IndentHalfToEvenReached ==
    /\ pc = "done"
    /\ char_height = 4
    /\ RowLines # {}
    /\ TextAreaLeft = 0
    /\ \E i \in RowLines :
           RowLeftX(origins[i]) = 5 /\ LeadingSpaces(text_lines[i]) = 2

\* A row line whose leftmost fragment has no text left after stripping: the
\* line is indented to that fragment.
IndentOfEmptyFragmentReached ==
    /\ pc = "done"
    /\ \E i \in RowLines :
           /\ grouped[origins[i]][1].text = <<>>
           /\ RowLeftX(origins[i]) = grouped[origins[i]][1].x
           /\ Len(grouped[origins[i]]) > 1
           /\ grouped[origins[i]][2].x > grouped[origins[i]][1].x
           /\ LeadingSpaces(text_lines[i]) > 0

(***************************************************************************)
(* Trailing padding and the spaces between fragments                       *)
(***************************************************************************)
\* round(px / charHeight * 2) for a distance that counts as 0 when negative.
SpacesOfDistance(px) == RoundHalfEven(2 * Max(0, px), char_height)

\* The texts of the fragments k.. of a Row with the spaces of the distance
\* between each fragment and the one before it.
RECURSIVE TextsAndGaps(_, _)
TextsAndGaps(row, k) ==
    IF k > Len(row) THEN <<>>
    ELSE (IF k = 1 THEN <<>>
          ELSE Spaces(SpacesOfDistance(row[k].x - (row[k - 1].x + row[k - 1].width))))
         \o row[k].text \o TextsAndGaps(row, k + 1)

\* The right edge of the last fragment of a Row, and the rightmost edge of
\* all its fragments.
LastRight(row) == row[Len(row)].x + row[Len(row)].width
RowRight(row) == SetMax({row[j].x + row[j].width : j \in DOMAIN row})

\* The emitted row line i is the indentation, the texts of its Row with all
\* the spaces between them, and the padding.
KeepsGapsAndPadding(i) ==
    LET row == grouped[origins[i]]
    IN  text_lines[i]
            = Spaces(SpacesOfDistance(RowLeftX(origins[i]) - TextAreaLeft))
              \o TextsAndGaps(row, 1)
              \o Spaces(SpacesOfDistance(TextAreaRight - LastRight(row)))

\* C27: every emitted row line ends with the padding of
\* round(max(0, textAreaRight - rowRight) / charHeight * 2) spaces after the
\* text of its last fragment, holds all the spaces computed between its
\* fragments, and is not made of whitespace alone.
C27_PaddingAndGapsKept ==
    \A i \in RowLines :
        /\ KeepsGapsAndPadding(i)
        /\ LStrip(text_lines[i]) # <<>>

\* Every emitted row line ends with the padding computed from the right edge
\* of the last fragment of its Row.
PaddingAfterLastFragment ==
    \A i \in RowLines :
        LET row == grouped[origins[i]]
            pad == SpacesOfDistance(TextAreaRight - LastRight(row))
        IN  /\ Len(text_lines[i]) >= pad
            /\ SubSeq(text_lines[i], Len(text_lines[i]) - pad + 1, Len(text_lines[i]))
                   = Spaces(pad)
            /\ row[Len(row)].text # <<>> => TrailingSpaces(text_lines[i]) = pad

\* The padding is computed from the rightmost edge of the Row.
PaddingFromRowRightEdge ==
    \A i \in RowLines :
        LET row == grouped[origins[i]]
        IN  row[Len(row)].text # <<>>
                => TrailingSpaces(text_lines[i])
                       = SpacesOfDistance(TextAreaRight - RowRight(row))

\* No emitted row line is made of whitespace alone.
NoWhitespaceOnlyRowLine == \A i \in RowLines : LStrip(text_lines[i]) # <<>>

\* A Row whose first fragment has a text keeps all the spaces between its
\* fragments.
GapsKeptBehindFirstText ==
    \A i \in RowLines :
        grouped[origins[i]][1].text # <<>> => KeepsGapsAndPadding(i)

\* A row line was emitted without the spaces between its first fragment,
\* whose stripped text is empty, and the text that follows 3 px right of it.
LeadingGapLostReached ==
    /\ pc = "done"
    /\ char_height = 4
    /\ \E i \in RowLines :
           LET row == grouped[origins[i]]
           IN  /\ Len(row) = 2
               /\ row[1].text = <<>> /\ row[1].x = 1 /\ row[1].width = 1
               /\ row[2].text = <<"A">> /\ row[2].x = 5
               /\ LeadingSpaces(text_lines[i]) = 0

\* A row line with trailing padding after a fragment with text, and with
\* spaces between two fragments with text.
PaddedRowLineReached ==
    /\ pc = "done"
    /\ \E i \in RowLines :
           LET row == grouped[origins[i]]
           IN  /\ Len(row) = 2
               /\ row[1].text # <<>> /\ row[2].text # <<>>
               /\ SpacesOfDistance(row[2].x - (row[1].x + row[1].width)) > 0
               /\ TrailingSpaces(text_lines[i]) > 0
               /\ KeepsGapsAndPadding(i)

(***************************************************************************)
(* Vertical regions                                                        *)
(***************************************************************************)
\* The lines of the vertical regions of the document, as <<region, line>>,
\* and those of them the box-level chain keeps.
VerticalAll ==
    {p \in (DOMAIN regions) \X (1..2 * MaxColumnRegions) :
        regions[p[1]].dir = "v" /\ p[2] \in DOMAIN regions[p[1]].lines}
VerticalKept ==
    {p \in VerticalAll :
        \A k \in DOMAIN box_filters :
            box_filters[k][LineId(regions, p[1], p[2])] # "F"}
VerticalWithText ==
    {p \in VerticalKept : Strip(regions[p[1]].lines[p[2]].text) # <<>>}

\* Line q comes before line p: its Region has the smaller x, or the same x
\* and comes first in the document; within a Region, it has the smaller x, or
\* the same x and comes first in the Region.
ComesBefore(q, p) ==
    LET rq == regions[q[1]]
        rp == regions[p[1]]
    IN  IF q[1] # p[1]
        THEN \/ rq.boundingBox.x < rp.boundingBox.x
             \/ rq.boundingBox.x = rp.boundingBox.x /\ q[1] < p[1]
        ELSE \/ rq.lines[q[2]].boundingBox.x < rp.lines[p[2]].boundingBox.x
             \/ /\ rq.lines[q[2]].boundingBox.x = rp.lines[p[2]].boundingBox.x
                /\ q[2] < p[2]

\* The output lines that follow the last line of the horizontal part.
HorizontalCount == Cardinality({i \in DOMAIN text_lines : origins[i] >= 0})
VerticalOutput == SubSeq(text_lines, HorizontalCount + 1, Len(text_lines))

\* The vertical part of the output is one line for every line of L, equal to
\* its stripped text, in the order of ComesBefore.
VerticalPartIs(L) ==
    /\ Len(VerticalOutput) = Cardinality(L)
    /\ \A p \in L :
           LET n == 1 + Cardinality({q \in L : ComesBefore(q, p)})
           IN  n <= Len(VerticalOutput)
               /\ VerticalOutput[n] = Strip(regions[p[1]].lines[p[2]].text)

\* The lines of the vertical regions come after all the lines of the
\* horizontal part.
VerticalAfterHorizontal ==
    \A i \in DOMAIN text_lines : \A j \in DOMAIN text_lines :
        (i < j /\ origins[i] < 0) => origins[j] < 0

\* C28 as stated: in a finished conversion the lines of the vertical regions
\* come after all the lines of the horizontal fragments, and every line of a
\* vertical region that the box-level chain keeps yields exactly one output
\* line, its stripped text, in the order of Region x, then Line x.
C28_EveryVerticalLineEmitted ==
    pc = "done" =>
        /\ VerticalAfterHorizontal
        /\ VerticalPartIs(VerticalKept)

\* C28: the same for the lines whose stripped text is not empty; a line of a
\* vertical region without text, or with whitespace only, yields no output
\* line.
C28_VerticalLinesWithText ==
    pc = "done" =>
        /\ VerticalAfterHorizontal
        /\ VerticalPartIs(VerticalWithText)

\* A finished conversion of a horizontal region right of two vertical regions
\* with the same x, one of them with its lines listed right to left: the
\* output is the horizontal line followed by three vertical lines.
C28_Witness ==
    /\ pc = "done"
    /\ box_filters = <<>>
    /\ HorizontalCount = 1
    /\ Cardinality(VerticalWithText) = 3
    /\ \E p \in VerticalWithText : \E q \in VerticalWithText :
           /\ p[1] < q[1]
           /\ regions[p[1]].boundingBox.x = regions[q[1]].boundingBox.x
    /\ \E p \in VerticalWithText : \E q \in VerticalWithText :
           /\ p[1] = q[1] /\ p[2] < q[2]
           /\ regions[p[1]].lines[p[2]].boundingBox.x
                  > regions[q[1]].lines[q[2]].boundingBox.x
    /\ Len(text_lines) = 4

\* A finished conversion in which a vertical line with whitespace-only text
\* was kept by the box-level chain and left no output line.
VerticalWhitespaceLineReached ==
    /\ pc = "done"
    /\ VerticalKept # VerticalWithText
    /\ Len(VerticalOutput) < Cardinality(VerticalKept)

\* A finished conversion in which the box-level chain rejected a vertical
\* line with text.
VerticalLineRejectedReached ==
    /\ pc = "done"
    /\ \E p \in VerticalAll \ VerticalKept :
           Strip(regions[p[1]].lines[p[2]].text) # <<>>

(***************************************************************************)
(* Clustering as an ordered partition                                      *)
(***************************************************************************)
\* The places <<row, position>> of the Rows returned.
Places ==
    {p \in (1..Len(groups.rows)) \X (1..Len(fragments)) :
        p[2] \in DOMAIN groups.rows[p[1]]}

\* The mean center of Row r + 1 exceeds that of Row r by more than the
\* same-line threshold (means in half pixels, threshold in twentieths).
MeanBeyondThreshold(r) ==
    LET a == groups.rows[r]
        b == groups.rows[r + 1]
    IN  10 * (Len(a) * SumYMid(b) - Len(b) * SumYMid(a))
            > Len(a) * Len(b) * Threshold(line_spacing, same_line_threshold_ratio)

\* C29: the Rows returned hold every input fragment exactly once, no Row is
\* empty, the mean center of every Row exceeds that of the Row before it by
\* more than the same-line threshold, and every Row is in ascending x.
C29_OrderedPartition ==
    Grouped =>
        /\ \A k \in DOMAIN fragments :
               Cardinality({p \in Places : groups.rows[p[1]][p[2]].id = fragments[k].id}) = 1
        /\ Cardinality(Places) = Len(fragments)
        /\ \A p \in Places :
               \E k \in DOMAIN fragments :
                   /\ fragments[k].id = groups.rows[p[1]][p[2]].id
                   /\ fragments[k].x = groups.rows[p[1]][p[2]].x
                   /\ fragments[k].y = groups.rows[p[1]][p[2]].y
                   /\ fragments[k].height = groups.rows[p[1]][p[2]].height
        /\ \A r \in 1..Len(groups.rows) : groups.rows[r] # <<>>
        /\ \A r \in 1..(Len(groups.rows) - 1) : MeanBeyondThreshold(r)
        /\ \A r \in 1..Len(groups.rows) :
               \A j \in 1..(Len(groups.rows[r]) - 1) :
                   groups.rows[r][j].x <= groups.rows[r][j + 1].x

\* Three fragments listed bottom to top were grouped into two Rows, the upper
\* one with two fragments that were listed right to left.
C29_Witness ==
    /\ Grouped
    /\ Len(fragments) = 3
    /\ y_mid(fragments[1]) > y_mid(fragments[2])
    /\ y_mid(fragments[2]) >= y_mid(fragments[3])
    /\ fragments[2].x > fragments[3].x
    /\ Len(groups.rows) = 2
    /\ Len(groups.rows[1]) = 2
    /\ groups.rows[1][1].id = 3 /\ groups.rows[1][2].id = 2
    /\ groups.rows[2][1].id = 1

====
